---- MODULE Spec2Model ----
(****************************************************************************)
(* Model of the audio-to-text pipeline of src/app.py:                       *)
(*   transcribe_audio_with_speech_recognition  (whole-recording path)       *)
(*   transcribe_long_audio_in_segments         (segmented path)             *)
(* One pipeline run is a sequential process; pc is its position in the      *)
(* code.  Every external call (decoder, exporter, audio reader, the         *)
(* recognition service) is a step whose outcome is chosen by the            *)
(* environment.  Python strings are sequences of tokens: a recognized text  *)
(* is a sequence of one-character tokens, a marker is "[" body... "]"; a    *)
(* token of several characters stands for the literal text it spells        *)
(* (Chars); a character without an escape is written by its code point.     *)
(* A step of a run reads or writes what runs share (the socket default      *)
(* timeout, the temporary directory) at most once, so two runs interleave   *)
(* between any two such accesses.  os.unlink fails only on a path that is   *)
(* gone.                                                                    *)
(* Spec is one run alone.  SpecConcurrent adds a second run of the same     *)
(* function in the same process (peer), on either path, reduced to its      *)
(* steps on what the two share: the temporary directory and the socket      *)
(* default timeout.                                                         *)
(* SpecRoutes is one request to save_recording, to the part of              *)
(* transcribe_recording after the run, to improve_transcription_with_gemini *)
(* or to generate_summary; writing a file there is taken to succeed.        *)
(* SpecLive is Spec with weak fairness of the run's steps.  SpecRender      *)
(* hands one text to create_pdf_from_text and then to                       *)
(* create_docx_from_text and records the blocks each emits.  SpecFiles is   *)
(* the recordings and transcriptions directories under the requests of two  *)
(* users served concurrently; a step of a request makes one access to the   *)
(* directories, so requests interleave between any two accesses.  Of the    *)
(* run inside transcribe_recording SpecFiles follows the accesses to the    *)
(* recording; its temporary files and the timeout are left to Spec and      *)
(* SpecConcurrent.                                                          *)
(****************************************************************************)
EXTENDS Integers, Sequences, FiniteSets, TLC

(* ------------------------------ bounds -------------------------------- *)

\* Largest number of whole 45 s windows in a modelled recording.
MaxWindows == 2

\* Largest number of lines in a rendered text.
MaxLines == 3

\* Largest number of requests being served at the same time.
MaxInflight == 2

\* Largest number of recordings kept on disk.
MaxRecordings == 2

\* Largest number of requests made to the directories' routes.
MaxRequests == 5

(* -------------------------- program constants ------------------------- *)

segment_length == 45 * 1000
long_threshold_s == 60
min_file_size == 1000
max_retries == 3
whole_socket_timeout == 60
segment_socket_timeout == 45
\* socket.getdefaulttimeout() of a fresh interpreter
None == 0 - 1

(* ------------------------------ inputs -------------------------------- *)

\* Durations in milliseconds (len(audio)), around every boundary.
Durations ==
    {1, segment_length - 1, segment_length, 1000 * long_threshold_s - 1,
     1000 * long_threshold_s, 1000 * long_threshold_s + 1}
    \cup {k * segment_length + d : k \in 2..MaxWindows, d \in {0 - 1, 0, 1}}

FileSizes == {min_file_size - 1, min_file_size}

\* Texts the recognition service may return (sequences of characters).
Texts == {<<"a">>, <<"b", " ">>, <<" ">>, <<"\r", "U+00A0">>, <<>>}

\* Diagnostics carried by exceptions.
Details == {"e1", "e2"}

\* Responses of one recognize_google call.
Outcomes ==
    [kind : {"text"}, text : Texts, detail : {""}]
    \cup [kind : {"timeout", "unknown"}, text : {<<>>}, detail : {""}]
    \cup [kind : {"request", "other"}, text : {<<>>}, detail : Details]

(* --------------------------- pure functions --------------------------- *)

\* str.isspace() of one character, the test str.strip() applies: the ASCII
\* controls 9-13 and 28-31, the space, and the Unicode spaces.  A character
\* that has no escape is written by its code point.
IsSpace(c) ==
    c \in {"\t", "\n", "U+000B", "\f", "\r", "U+001C", "U+001D", "U+001E", "U+001F", " ",
           "U+0085", "U+00A0", "U+1680", "U+2000", "U+2001", "U+2002", "U+2003", "U+2004",
           "U+2005", "U+2006", "U+2007", "U+2008", "U+2009", "U+200A", "U+2028", "U+2029",
           "U+202F", "U+205F", "U+3000"}

RECURSIVE lstrip(_)
lstrip(s) == IF s # <<>> /\ IsSpace(Head(s)) THEN lstrip(Tail(s)) ELSE s

RECURSIVE rstrip(_)
rstrip(s) ==
    IF s # <<>> /\ IsSpace(s[Len(s)]) THEN rstrip(SubSeq(s, 1, Len(s) - 1)) ELSE s

\* Variant: nothing is trimmed.
strip_identity(s) == s

\* str.strip()
strip(s) == rstrip(lstrip(s))

\* str(n) for the small naturals that number segments
DigitStr(n) == CASE n = 0 -> "0" [] n = 1 -> "1" [] n = 2 -> "2" [] n = 3 -> "3"
                 [] n = 4 -> "4" [] n = 5 -> "5" [] n = 6 -> "6" [] n = 7 -> "7"
                 [] n = 8 -> "8" [] n = 9 -> "9"

Marker(body) == <<"[">> \o body \o <<"]">>

\* Markers of the whole-recording path
NotFoundMarker == Marker(<<"Erro: Arquivo de áudio não encontrado">>)
TooSmallMarker == Marker(<<"Erro: Arquivo de áudio muito pequeno ou vazio">>)
ReadErrorMarker(detail) ==
    Marker(<<"Erro: Não foi possível processar o arquivo de áudio. O formato pode não ser suportado. Detalhes: ", detail>>)
EmptyMarker == Marker(<<"Áudio vazio ou muito baixo">>)
TimeoutMarker ==
    Marker(<<"Erro: Timeout na transcrição. O arquivo pode ser muito longo ou a conexão está lenta. Tente dividir o áudio em partes menores.">>)
UnrecognizedMarker ==
    Marker(<<"Áudio não pôde ser compreendido - verifique a qualidade do áudio e tente falar mais claramente">>)
ServiceErrorMarker(detail) == Marker(<<"Erro no serviço de reconhecimento: ", detail>>)
GeneralErrorMarker(detail) == Marker(<<"Erro na transcrição: ", detail>>)

\* Markers of the segmented path
SilentSegmentMarker == Marker(<<"Segmento silencioso">>)
SegmentErrorMarker(idx) == Marker(<<"Erro no segmento ", DigitStr(idx + 1)>>)
SegmentsAbortMarker(detail) == Marker(<<"Erro na transcrição por segmentos: ", detail>>)

\* return text if text.strip() else "[Áudio vazio ou muito baixo]"
WholeTextFragment(text) == IF strip(text) # <<>> THEN text ELSE EmptyMarker

\* What the retry loop returns for an outcome that ends it.
WholeFragment(o) ==
    CASE o.kind = "text"    -> WholeTextFragment(o.text)
      [] o.kind = "timeout" -> TimeoutMarker
      [] o.kind = "unknown" -> UnrecognizedMarker
      [] o.kind = "request" -> ServiceErrorMarker(o.detail)
      [] o.kind = "other"   -> GeneralErrorMarker(o.detail)

\* Variant: a request error is retried like a timeout.
IsRetryable_requestToo(kind) == kind \in {"timeout", "request"}

\* except (TimeoutError, socket.timeout): the only outcome that is retried
IsRetryable(kind) == kind = "timeout"

\* Variant: off-by-one in the retry test, so the last attempt also backs off.
ShouldRetry_offByOne(attempt) == attempt < max_retries

\* if attempt < max_retries - 1: sleep and continue
ShouldRetry(attempt) == attempt < max_retries - 1

\* What one segment contributes to transcriptions: the text, the silent
\* marker, or (for every exception) the numbered segment error marker.
SegFragment(o, idx) ==
    IF o.kind = "text"
    THEN (IF strip(o.text) # <<>> THEN o.text ELSE SilentSegmentMarker)
    ELSE SegmentErrorMarker(idx)

\* Variant: the threshold test is >= instead of >.
IsLong_inclusive(duration) == duration >= 1000 * long_threshold_s

\* if duration_seconds > 60 (duration_seconds = len(audio) / 1000.0)
IsLong(duration) == duration > 1000 * long_threshold_s

\* Variant: the end of a window is not clipped to the duration.
SegmentEnd_unclipped(i, total_duration) == i + segment_length

\* end = min(i + segment_length, total_duration)
SegmentEnd(i, total_duration) ==
    IF i + segment_length < total_duration THEN i + segment_length ELSE total_duration

\* for i in range(0, total_duration, segment_length): segments.append(audio[i:end])
RECURSIVE SplitFrom(_, _)
SplitFrom(i, total_duration) ==
    IF i >= total_duration THEN <<>>
    ELSE <<[start |-> i, end |-> SegmentEnd(i, total_duration)]>>
         \o SplitFrom(i + segment_length, total_duration)

SplitSegments(total_duration) == SplitFrom(0, total_duration)

\* f"[Segmento {i+1}]\n{trans}"  (i is 0-based)
SegmentBlock(i, trans) == <<"[", "Segmento ", DigitStr(i + 1), "]", "\n">> \o trans

\* "\n\n".join(blocks), blocks numbered from 0-based index first
RECURSIVE JoinFrom(_, _)
JoinFrom(ts, first) ==
    IF ts = <<>> THEN <<>>
    ELSE IF Len(ts) = 1 THEN SegmentBlock(first, ts[1])
    ELSE SegmentBlock(first, ts[1]) \o <<"\n", "\n">> \o JoinFrom(Tail(ts), first + 1)

\* Variant: the fragments are joined last to first.
StitchTranscript_reversed(ts) ==
    JoinFrom([k \in 1..Len(ts) |-> ts[Len(ts) + 1 - k]], 0)

StitchTranscript(ts) == JoinFrom(ts, 0)

\* Variant: no finally clause, the timeout in force is left as it is.
FinallyRestore_missing(orig, current) == current

\* finally: if 'original_timeout' in locals(): socket.setdefaulttimeout(original_timeout)
\* original_timeout is <<>> while unbound, <<v>> once assigned.
FinallyRestore(orig, current) == IF orig # <<>> THEN orig[1] ELSE current

\* Variant: a failed level 1 hands over to level 3, skipping level 2.
FallbackAfter_skipDirect(p) ==
    CASE p \in {"load", "export", "read1"} -> "read3"
      [] p = "read2" -> "read3"

\* Nested except handlers of the layered read: where a failed level hands over.
FallbackAfter(p) ==
    CASE p \in {"load", "export", "read1"} -> "read2"
      [] p = "read2" -> "read3"

(* ------------------------------- state -------------------------------- *)

VARIABLES
    pc,                \* position of the run in the code
    file_exists,       \* os.path.exists(audio_path)
    file_size,         \* os.path.getsize(audio_path)
    duration,          \* len(audio) of the recording, ms
    socket_timeout,    \* process-wide socket default timeout
    initial_timeout,   \* its value when the run started (history)
    original_timeout,  \* local of the run: <<>> unbound, <<v>> bound
    attempt,           \* loop variable of the retry loop
    audio_level,       \* 0 none, else the read level whose audio_data is in use
    levels_tried,      \* read levels entered so far, in order (history)
    level_errors,      \* diagnostic of each failed read level, in order (history)
    attempt_log,       \* outcome of each recognition call of the whole path (history)
    sleeps,            \* number of time.sleep(2) backoffs (history)
    segments,          \* list built by the split loop
    idx,               \* index of the segment being handled
    transcriptions,    \* list of fragments of the segmented path
    seg_log,           \* per handled segment: calls made, how it ended, text answered (history)
    temp_files,        \* temporary files present on disk
    result             \* value returned by the run (<<>> before it returns)

\* The second run (SpecConcurrent)
VARIABLES
    peer_pc,           \* position of the second run
    peer_path,         \* its temp_path (<<>> before it is built)
    peer_original,     \* its local original_timeout: <<>> unbound, <<v>> bound
    peer_attempt,      \* its retry loop variable
    peer_long,         \* its recording is longer than 60 s
    peer_idx           \* index of the segment it is handling

peer_vars == <<peer_pc, peer_path, peer_original, peer_attempt, peer_long, peer_idx>>

\* One request to a route (SpecRoutes)
VARIABLES
    rt_pc,             \* position of the request
    rt_op,             \* the operation requested
    model_available,   \* the module-level model is not None
    raw_transcription, \* text handed to the transcribe tail or to improve
    transcription,     \* the route's transcription / what improve returned
    improve_raised,    \* improve raised to its caller
    generative_calls,  \* generate_content calls made by the request (history)
    gen_log,           \* their outcomes, in order (history)
    prompt,            \* last prompt sent to the generative service
    custom_in,         \* custom_prompt as the caller supplied it
    transcript_file,   \* <base>_transcricao.txt
    summary_file,      \* <base>_resumo.txt
    combined_file,     \* <base>_conversa_completa.txt
    prior_summary,     \* summary_file when the request started (history)
    prior_combined,    \* combined_file when the request started (history)
    response,          \* the JSON response
    audio_size,        \* len(audio_bytes) posted to save_recording
    wav_size,          \* len of what convert_to_wav returned
    conv_temp,         \* temporary files of convert_to_wav on disk
    recordings         \* sizes of the files stored under recordings/


route_vars == <<rt_pc, rt_op, model_available, raw_transcription, transcription, improve_raised, generative_calls, gen_log, prompt, custom_in,
                transcript_file, summary_file, combined_file, prior_summary, prior_combined, response, audio_size, wav_size, conv_temp, recordings>>

\* One call of each document renderer on one text (SpecRender)
VARIABLES
    rd_pc,             \* position: pdf loop, docx test, docx loop, done
    markup,            \* text.split('\n'): the lines of the text
    line_no,           \* lines already consumed by the loop in progress
    story,             \* blocks appended by create_pdf_from_text after the date
    docx_body,         \* blocks added by create_docx_from_text after the date
    docx_marked        \* outcome of the test '##' in text (FALSE before the test)

render_vars == <<rd_pc, markup, line_no, story, docx_body, docx_marked>>

\* The recordings and transcriptions directories and the requests of
\* several users on them (SpecFiles)
VARIABLES
    disk,              \* files present: base name, kind, and who recorded the audio (history)
    inflight,          \* requests being served: where each stands and what it holds
    fs_answer,         \* answer of the last request that ended
    requests,          \* number of requests received so far (history)
    foreign_access     \* what a user did to files made from another user's recording (history)

fs_vars == <<disk, inflight, fs_answer, requests, foreign_access>>

aux_vars == <<render_vars, fs_vars>>

\* What belongs to the first run alone.
run_private == <<pc, file_exists, file_size, duration, initial_timeout, original_timeout,
                 attempt, audio_level, levels_tried, level_errors, attempt_log, sleeps,
                 segments, idx, transcriptions, seg_log, result>>

vars == <<pc, file_exists, file_size, duration, socket_timeout, initial_timeout,
          original_timeout, attempt, audio_level, levels_tried, level_errors, attempt_log,
          sleeps, segments, idx, transcriptions, seg_log, temp_files, result,
          peer_vars, route_vars, aux_vars>>

\* The second run has not started.
PeerInit ==
    /\ peer_pc = "idle"
    /\ peer_path = <<>>
    /\ peer_original = <<>>
    /\ peer_attempt = 0
    /\ peer_long = FALSE
    /\ peer_idx = 0

\* A file that does not exist (any content, <<>> too, is a sequence of text tokens).
NoFile == <<"\\absent">>

NoResponse == [success |-> FALSE, status |-> 0, message |-> <<>>]

\* No request is being served.
RouteIdle ==
    /\ rt_pc = "none"
    /\ rt_op = "none"
    /\ model_available = FALSE
    /\ raw_transcription = <<>>
    /\ transcription = <<>>
    /\ improve_raised = FALSE
    /\ generative_calls = 0
    /\ gen_log = <<>>
    /\ prompt = <<>>
    /\ custom_in = <<>>
    /\ transcript_file = NoFile
    /\ summary_file = NoFile
    /\ combined_file = NoFile
    /\ prior_summary = NoFile
    /\ prior_combined = NoFile
    /\ response = NoResponse
    /\ audio_size = 0
    /\ wav_size = 0
    /\ conv_temp = {}
    /\ recordings = {}

\* No document is being rendered.
RenderIdle ==
    /\ rd_pc = "none"
    /\ markup = <<>>
    /\ line_no = 0
    /\ story = <<>>
    /\ docx_body = <<>>
    /\ docx_marked = FALSE

\* The directories are not part of what is modelled here.
FsIdle ==
    /\ disk = {}
    /\ inflight = {}
    /\ fs_answer = "none"
    /\ requests = 0
    /\ foreign_access = {}

Init ==
    /\ pc = "start"
    /\ file_exists \in BOOLEAN
    /\ file_size \in FileSizes
    /\ duration \in Durations
    /\ socket_timeout \in {None, 10}
    /\ initial_timeout = socket_timeout
    /\ original_timeout = <<>>
    /\ attempt = 0
    /\ audio_level = 0
    /\ levels_tried = <<>>
    /\ level_errors = <<>>
    /\ attempt_log = <<>>
    /\ sleeps = 0
    /\ segments = <<>>
    /\ idx = 0
    /\ transcriptions = <<>>
    /\ seg_log = <<>>
    /\ temp_files = {}
    /\ result = <<>>
    /\ PeerInit
    /\ RouteIdle
    /\ RenderIdle
    /\ FsIdle

(* ----------------- transcribe_audio_with_speech_recognition ------------- *)

\* temp_audio_<YYYYmmdd_HHMMSS>.wav and segment_<idx>_<YYYYmmdd_HHMMSS>.wav:
\* a name carries the second in which it is built; seconds are counted from
\* the one in which this run builds the name.
TempAudio == <<"temp_audio", 0>>
SegmentFile(i) == <<"segment", i, 0>>

\* The run returns value v.
Return(v) == /\ result' = v
             /\ pc' = "done"

\* Existence and size checks at the top of the function.
CheckFile ==
    /\ pc = "start"
    /\ IF ~file_exists THEN Return(NotFoundMarker)
       ELSE IF file_size < min_file_size THEN Return(TooSmallMarker)
       ELSE /\ pc' = "load"
            /\ UNCHANGED result
    /\ UNCHANGED <<peer_vars, route_vars, aux_vars, file_exists, file_size, duration, socket_timeout, initial_timeout,
                   original_timeout, attempt, audio_level, levels_tried, level_errors, attempt_log,
                   sleeps, segments, idx, transcriptions, seg_log, temp_files>>

\* Level 1 begins: AudioSegment.from_file, then the duration test.
LoadAudio ==
    /\ pc = "load"
    /\ levels_tried' = Append(levels_tried, 1)
    /\ \/ /\ pc' = IF IsLong(duration) THEN "split" ELSE "export"
          /\ UNCHANGED level_errors
       \/ \E conv_error \in Details :
            /\ pc' = FallbackAfter("load")
            /\ level_errors' = Append(level_errors, conv_error)
    /\ UNCHANGED <<peer_vars, route_vars, aux_vars, file_exists, file_size, duration, socket_timeout, initial_timeout,
                   original_timeout, attempt, audio_level, attempt_log, sleeps,
                   segments, idx, transcriptions, seg_log, temp_files, result>>

\* Level 1: resample, normalize and export the temporary wav.
\* A failed export may or may not leave the file behind.
ExportTemp ==
    /\ pc = "export"
    /\ \/ /\ temp_files' = temp_files \cup {TempAudio}
          /\ pc' = "read1"
          /\ UNCHANGED level_errors
       \/ \E conv_error \in Details, left \in BOOLEAN :
            /\ temp_files' = IF left THEN temp_files \cup {TempAudio} ELSE temp_files
            /\ pc' = FallbackAfter("export")
            /\ level_errors' = Append(level_errors, conv_error)
    /\ UNCHANGED <<peer_vars, route_vars, aux_vars, file_exists, file_size, duration, socket_timeout, initial_timeout,
                   original_timeout, attempt, audio_level, levels_tried, attempt_log,
                   sleeps, segments, idx, transcriptions, seg_log, result>>

\* Level 1: read the converted file with calibration (lines 148-152).
ReadConverted ==
    /\ pc = "read1"
    /\ \/ /\ TempAudio \in temp_files
          /\ audio_level' = 1
          /\ pc' = "unlink1"
          /\ UNCHANGED level_errors
       \/ \E conv_error \in Details :
            /\ pc' = FallbackAfter("read1")
            /\ level_errors' = Append(level_errors, conv_error)
            /\ UNCHANGED audio_level
    /\ UNCHANGED <<peer_vars, route_vars, aux_vars, file_exists, file_size, duration, socket_timeout, initial_timeout,
                   original_timeout, attempt, levels_tried, attempt_log, sleeps,
                   segments, idx, transcriptions, seg_log, temp_files, result>>

\* Level 1: os.unlink(temp_path) (line 155), the last statement of the level-1
\* try: on a path that is gone it raises and the level-1 handler takes over.
UnlinkTemp ==
    /\ pc = "unlink1"
    /\ IF TempAudio \in temp_files
       THEN /\ temp_files' = temp_files \ {TempAudio}
            /\ pc' = "recog"
            /\ UNCHANGED level_errors
       ELSE \E conv_error \in Details :
              /\ pc' = FallbackAfter("read1")
              /\ level_errors' = Append(level_errors, conv_error)
              /\ UNCHANGED temp_files
    /\ UNCHANGED <<peer_vars, route_vars, aux_vars, file_exists, file_size, duration, socket_timeout, initial_timeout,
                   original_timeout, attempt, audio_level, levels_tried, attempt_log, sleeps,
                   segments, idx, transcriptions, seg_log, result>>

\* Level 2: read the original file with calibration.
ReadDirect ==
    /\ pc = "read2"
    /\ levels_tried' = Append(levels_tried, 2)
    /\ \/ /\ audio_level' = 2
          /\ pc' = "recog"
          /\ UNCHANGED level_errors
       \/ \E direct_error \in Details :
            /\ pc' = FallbackAfter("read2")
            /\ level_errors' = Append(level_errors, direct_error)
            /\ UNCHANGED audio_level
    /\ UNCHANGED <<peer_vars, route_vars, aux_vars, file_exists, file_size, duration, socket_timeout, initial_timeout,
                   original_timeout, attempt, attempt_log, sleeps, segments, idx,
                   transcriptions, seg_log, temp_files, result>>

\* Level 3: read the original file without calibration; its failure ends the run.
ReadNoCalibration ==
    /\ pc = "read3"
    /\ levels_tried' = Append(levels_tried, 3)
    /\ \/ /\ audio_level' = 3
          /\ pc' = "recog"
          /\ UNCHANGED <<result, level_errors>>
       \/ \E final_error \in Details :
            /\ Return(ReadErrorMarker(final_error))
            /\ level_errors' = Append(level_errors, final_error)
            /\ UNCHANGED audio_level
    /\ UNCHANGED <<peer_vars, route_vars, aux_vars, file_exists, file_size, duration, socket_timeout, initial_timeout,
                   original_timeout, attempt, attempt_log, sleeps, segments, idx,
                   transcriptions, seg_log, temp_files>>

\* Top of one iteration of the retry loop: the timeout in force is saved
\* (line 184).
BeginAttempt ==
    /\ pc = "recog"
    /\ original_timeout' = <<socket_timeout>>
    /\ pc' = "override"
    /\ UNCHANGED <<peer_vars, route_vars, aux_vars, file_exists, file_size, duration, socket_timeout, initial_timeout, attempt,
                   audio_level, levels_tried, level_errors, attempt_log, sleeps, segments, idx,
                   transcriptions, seg_log, temp_files, result>>

\* socket.setdefaulttimeout(60) (line 185); the recognition call follows.
OverrideTimeout ==
    /\ pc = "override"
    /\ socket_timeout' = whole_socket_timeout
    /\ pc' = "call"
    /\ UNCHANGED <<peer_vars, route_vars, aux_vars, file_exists, file_size, duration, initial_timeout, original_timeout,
                   attempt, audio_level, levels_tried, level_errors, attempt_log, sleeps, segments, idx,
                   transcriptions, seg_log, temp_files, result>>

\* recognize_google returns or raises. A text: the timeout is restored at once
\* (line 194), the return and the finally clause come later. A timeout that is
\* retried: the handler goes to sleep. Any other outcome: the handler returns
\* through the finally clause, the only restore on that path.
RecognizeCall ==
    /\ pc = "call"
    /\ \E o \in Outcomes :
         /\ attempt_log' = Append(attempt_log, o)
         /\ IF o.kind = "text"
            THEN /\ socket_timeout' = original_timeout[1]
                 /\ pc' = "return_text"
                 /\ UNCHANGED result
            ELSE IF IsRetryable(o.kind) /\ ShouldRetry(attempt)
            THEN /\ pc' = "backoff"
                 /\ UNCHANGED <<socket_timeout, result>>
            ELSE /\ Return(IF IsRetryable(o.kind) THEN TimeoutMarker ELSE WholeFragment(o))
                 /\ socket_timeout' = FinallyRestore(original_timeout, socket_timeout)
    /\ UNCHANGED <<peer_vars, route_vars, aux_vars, file_exists, file_size, duration, initial_timeout, original_timeout,
                   attempt, audio_level, levels_tried, level_errors, sleeps, segments, idx,
                   transcriptions, seg_log, temp_files>>

\* print, return text or the empty marker (lines 196-197); the finally clause
\* sets the saved timeout once more (line 218).
ReturnText ==
    /\ pc = "return_text"
    /\ Return(WholeFragment(attempt_log[Len(attempt_log)]))
    /\ socket_timeout' = FinallyRestore(original_timeout, socket_timeout)
    /\ UNCHANGED <<peer_vars, route_vars, aux_vars, file_exists, file_size, duration, initial_timeout, original_timeout,
                   attempt, audio_level, levels_tried, level_errors, attempt_log, sleeps, segments, idx,
                   transcriptions, seg_log, temp_files>>

\* time.sleep(2); continue -- the finally clause restores the timeout, the
\* loop variable advances; a loop that runs out falls off the function.
Backoff ==
    /\ pc = "backoff"
    /\ sleeps' = sleeps + 1
    /\ socket_timeout' = FinallyRestore(original_timeout, socket_timeout)
    /\ attempt' = attempt + 1
    /\ IF attempt + 1 < max_retries
       THEN /\ pc' = "recog"
            /\ UNCHANGED result
       ELSE Return(<<"None">>)
    /\ UNCHANGED <<peer_vars, route_vars, aux_vars, file_exists, file_size, duration, initial_timeout, original_timeout,
                   audio_level, levels_tried, level_errors, attempt_log, segments, idx,
                   transcriptions, seg_log, temp_files>>

(* -------------------- transcribe_long_audio_in_segments ----------------- *)

\* The split loop.
SplitAudio ==
    /\ pc = "split"
    /\ segments' = SplitSegments(duration)
    /\ pc' = IF segments' # <<>> THEN "seg_export" ELSE "stitch"
    /\ UNCHANGED <<peer_vars, route_vars, aux_vars, file_exists, file_size, duration, socket_timeout, initial_timeout,
                   original_timeout, attempt, audio_level, levels_tried, level_errors, attempt_log,
                   sleeps, idx, transcriptions, seg_log, temp_files, result>>

\* End of the try body or of its handler: the segment's fragment is
\* appended (line 273 or 278); the finally clause is next.
FinishSegment(fragment, calls, kind, text) ==
    /\ transcriptions' = Append(transcriptions, fragment)
    /\ seg_log' = Append(seg_log, [idx |-> idx, calls |-> calls, kind |-> kind, text |-> text])
    /\ pc' = "seg_test"

\* Resample, normalize and export segment idx; this is outside the
\* per-segment try, so a failure reaches the function's outer handler.
SegExport ==
    /\ pc = "seg_export"
    /\ \/ /\ temp_files' = temp_files \cup {SegmentFile(idx)}
          /\ pc' = "seg_read"
          /\ UNCHANGED result
       \/ \E e \in Details, left \in BOOLEAN :
            /\ temp_files' = IF left THEN temp_files \cup {SegmentFile(idx)} ELSE temp_files
            /\ Return(SegmentsAbortMarker(e))
    /\ UNCHANGED <<peer_vars, route_vars, aux_vars, file_exists, file_size, duration, socket_timeout, initial_timeout,
                   original_timeout, attempt, audio_level, levels_tried, level_errors, attempt_log,
                   sleeps, segments, idx, transcriptions, seg_log>>

\* Read the segment file with calibration (lines 261-263); a file that is
\* gone cannot be read.
SegRead ==
    /\ pc = "seg_read"
    /\ \/ /\ SegmentFile(idx) \in temp_files
          /\ pc' = "seg_recog"
          /\ UNCHANGED <<transcriptions, seg_log>>
       \/ FinishSegment(SegmentErrorMarker(idx), 0, "read", <<>>)
    /\ UNCHANGED <<peer_vars, route_vars, aux_vars, file_exists, file_size, duration, socket_timeout, initial_timeout, original_timeout,
                   attempt, audio_level, levels_tried, level_errors, attempt_log, sleeps, segments,
                   idx, temp_files, result>>

\* The timeout in force is saved before the segment's recognition call
\* (line 267).
SegBeginAttempt ==
    /\ pc = "seg_recog"
    /\ original_timeout' = <<socket_timeout>>
    /\ pc' = "seg_override"
    /\ UNCHANGED <<peer_vars, route_vars, aux_vars, file_exists, file_size, duration, socket_timeout, initial_timeout, attempt,
                   audio_level, levels_tried, level_errors, attempt_log, sleeps, segments, idx,
                   transcriptions, seg_log, temp_files, result>>

\* socket.setdefaulttimeout(45) (line 268); the recognition call follows.
SegOverrideTimeout ==
    /\ pc = "seg_override"
    /\ socket_timeout' = segment_socket_timeout
    /\ pc' = "seg_call"
    /\ UNCHANGED <<peer_vars, route_vars, aux_vars, file_exists, file_size, duration, initial_timeout, original_timeout,
                   attempt, audio_level, levels_tried, level_errors, attempt_log, sleeps, segments, idx,
                   transcriptions, seg_log, temp_files, result>>

\* The single recognize_google call of the segment returns or raises. A text:
\* the timeout is restored at once (line 271) and the fragment appended. An
\* error: the handler appends the segment's error marker, the timeout stays.
SegRecognizeCall ==
    /\ pc = "seg_call"
    /\ \E o \in Outcomes :
         /\ FinishSegment(SegFragment(o, idx), 1, o.kind, o.text)
         /\ socket_timeout' = IF o.kind = "text" THEN original_timeout[1] ELSE socket_timeout
    /\ UNCHANGED <<peer_vars, route_vars, aux_vars, file_exists, file_size, duration, initial_timeout, original_timeout,
                   attempt, audio_level, levels_tried, level_errors, attempt_log, sleeps, segments,
                   idx, temp_files, result>>

\* finally: os.path.exists(segment_path) (line 281).
SegTest ==
    /\ pc = "seg_test"
    /\ pc' = IF SegmentFile(idx) \in temp_files THEN "seg_unlink" ELSE "seg_restore"
    /\ UNCHANGED <<peer_vars, route_vars, aux_vars, file_exists, file_size, duration, socket_timeout, initial_timeout,
                   original_timeout, attempt, audio_level, levels_tried, level_errors, attempt_log,
                   sleeps, segments, idx, transcriptions, seg_log, temp_files, result>>

\* finally: os.unlink(segment_path) (line 282).  On a path that is gone it
\* raises out of the finally clause: the restore of line 284 is skipped and
\* the function's outer handler returns its marker (lines 292-294).
SegUnlink ==
    /\ pc = "seg_unlink"
    /\ IF SegmentFile(idx) \in temp_files
       THEN /\ temp_files' = temp_files \ {SegmentFile(idx)}
            /\ pc' = "seg_restore"
            /\ UNCHANGED result
       ELSE /\ \E e \in Details : Return(SegmentsAbortMarker(e))
            /\ UNCHANGED temp_files
    /\ UNCHANGED <<peer_vars, route_vars, aux_vars, file_exists, file_size, duration, socket_timeout, initial_timeout,
                   original_timeout, attempt, audio_level, levels_tried, level_errors, attempt_log,
                   sleeps, segments, idx, transcriptions, seg_log>>

\* finally: the saved timeout is set (lines 283-284); then the next segment
\* or the join.
SegRestore ==
    /\ pc = "seg_restore"
    /\ socket_timeout' = FinallyRestore(original_timeout, socket_timeout)
    /\ idx' = idx + 1
    /\ pc' = IF idx + 1 < Len(segments) THEN "seg_export" ELSE "stitch"
    /\ UNCHANGED <<peer_vars, route_vars, aux_vars, file_exists, file_size, duration, initial_timeout, original_timeout,
                   attempt, audio_level, levels_tried, level_errors, attempt_log, sleeps, segments,
                   transcriptions, seg_log, temp_files, result>>

\* Join the fragments and return.
Stitch ==
    /\ pc = "stitch"
    /\ Return(StitchTranscript(transcriptions))
    /\ UNCHANGED <<peer_vars, route_vars, aux_vars, file_exists, file_size, duration, socket_timeout, initial_timeout,
                   original_timeout, attempt, audio_level, levels_tried, level_errors, attempt_log,
                   sleeps, segments, idx, transcriptions, seg_log, temp_files>>

Next ==
    \/ CheckFile
    \/ LoadAudio
    \/ ExportTemp
    \/ ReadConverted
    \/ UnlinkTemp
    \/ ReadDirect
    \/ ReadNoCalibration
    \/ BeginAttempt
    \/ OverrideTimeout
    \/ RecognizeCall
    \/ ReturnText
    \/ Backoff
    \/ SplitAudio
    \/ SegExport
    \/ SegRead
    \/ SegBeginAttempt
    \/ SegOverrideTimeout
    \/ SegRecognizeCall
    \/ SegTest
    \/ SegUnlink
    \/ SegRestore
    \/ Stitch

Spec == Init /\ [][Next]_vars

\* The run is one sequential thread and every external call it makes
\* returns, fails or times out: it always takes its next step.
SpecLive == Init /\ [][Next]_vars /\ WF_vars(Next)

(* ------------------- a second run in the same process ------------------ *)

\* The second run exports a temporary wav: temp_audio of a recording of at
\* most 60 s (lines 134-143), or the next segment of a longer one of
\* MaxWindows segments (lines 249-254).  The name carries the second in
\* which it is built, the first run's second (0) or the next.
PeerExport ==
    /\ peer_pc \in {"idle", "export"}
    /\ \E long \in (IF peer_pc = "idle" THEN BOOLEAN ELSE {TRUE}), s \in {0, 1} :
         /\ peer_long' = long
         /\ peer_path' = IF long THEN <<"segment", peer_idx, s>> ELSE <<"temp_audio", s>>
         /\ temp_files' = temp_files \cup {peer_path'}
    /\ peer_pc' = "read"
    /\ UNCHANGED <<run_private, route_vars, aux_vars, socket_timeout, peer_original, peer_attempt,
                   peer_idx>>

\* It reads the file it exported (lines 148-152, 261-263); if the file is gone
\* the read raises: the whole-recording path falls back to reading its
\* original file, the segment's handler leads to its finally clause.
PeerRead ==
    /\ peer_pc = "read"
    /\ peer_pc' = IF peer_long THEN (IF peer_path \in temp_files THEN "recog" ELSE "test")
                  ELSE (IF peer_path \in temp_files THEN "unlink" ELSE "recog")
    /\ UNCHANGED <<run_private, route_vars, aux_vars, socket_timeout, temp_files, peer_path,
                   peer_original, peer_attempt, peer_long, peer_idx>>

\* os.unlink of its file.  Line 155: on a path that is gone it raises and the
\* run falls back to reading its original file.  Line 282: on a path that is
\* gone it raises out of the finally clause and the function returns its
\* marker, the restore of line 284 skipped.
PeerUnlink ==
    /\ peer_pc = "unlink"
    /\ temp_files' = temp_files \ {peer_path}
    /\ peer_pc' = IF ~peer_long THEN "recog"
                  ELSE IF peer_path \in temp_files THEN "restore" ELSE "done"
    /\ UNCHANGED <<run_private, route_vars, aux_vars, socket_timeout, peer_path, peer_original,
                   peer_attempt, peer_long, peer_idx>>

\* The timeout in force is saved before a recognition call (lines 184, 267).
PeerBeginAttempt ==
    /\ peer_pc = "recog"
    /\ peer_original' = <<socket_timeout>>
    /\ peer_pc' = "override"
    /\ UNCHANGED <<run_private, route_vars, aux_vars, socket_timeout, temp_files, peer_path,
                   peer_attempt, peer_long, peer_idx>>

\* socket.setdefaulttimeout(60) (line 185) or (45) (line 268).
PeerOverrideTimeout ==
    /\ peer_pc = "override"
    /\ socket_timeout' = IF peer_long THEN segment_socket_timeout ELSE whole_socket_timeout
    /\ peer_pc' = "call"
    /\ UNCHANGED <<run_private, route_vars, aux_vars, temp_files, peer_path, peer_original,
                   peer_attempt, peer_long, peer_idx>>

\* Its recognize_google call returns or raises. A text: the timeout is
\* restored at once (lines 194, 271); the return or the finally clause comes
\* later. Whole recording: a timeout that is retried goes to sleep with the
\* timeout still overridden; the last timeout returns through the finally
\* clause. Segment: an error leads to the finally clause, the timeout stays.
PeerRecognizeCall ==
    /\ peer_pc = "call"
    /\ \E kind \in {"text", "timeout"} :
         IF kind = "text"
         THEN /\ socket_timeout' = peer_original[1]
              /\ peer_pc' = IF peer_long THEN "test" ELSE "return_text"
         ELSE IF peer_long
         THEN /\ peer_pc' = "test"
              /\ UNCHANGED socket_timeout
         ELSE IF IsRetryable(kind) /\ ShouldRetry(peer_attempt)
         THEN /\ peer_pc' = "backoff"
              /\ UNCHANGED socket_timeout
         ELSE /\ peer_pc' = "done"
              /\ socket_timeout' = FinallyRestore(peer_original, socket_timeout)
    /\ UNCHANGED <<run_private, route_vars, aux_vars, temp_files, peer_path, peer_original,
                   peer_attempt, peer_long, peer_idx>>

\* It returns its text (lines 196-197); the finally clause sets the saved
\* timeout once more (line 218).
PeerReturnText ==
    /\ peer_pc = "return_text"
    /\ socket_timeout' = FinallyRestore(peer_original, socket_timeout)
    /\ peer_pc' = "done"
    /\ UNCHANGED <<run_private, route_vars, aux_vars, temp_files, peer_path, peer_original,
                   peer_attempt, peer_long, peer_idx>>

\* Its time.sleep(2) ends; continue: the finally clause restores the timeout
\* and the loop variable advances.
PeerBackoff ==
    /\ peer_pc = "backoff"
    /\ socket_timeout' = FinallyRestore(peer_original, socket_timeout)
    /\ peer_attempt' = peer_attempt + 1
    /\ peer_pc' = "recog"
    /\ UNCHANGED <<run_private, route_vars, aux_vars, temp_files, peer_path, peer_original,
                   peer_long, peer_idx>>

\* A segment's finally clause: os.path.exists(segment_path) (line 281).
PeerSegTest ==
    /\ peer_pc = "test"
    /\ peer_pc' = IF peer_path \in temp_files THEN "unlink" ELSE "restore"
    /\ UNCHANGED <<run_private, route_vars, aux_vars, socket_timeout, temp_files, peer_path,
                   peer_original, peer_attempt, peer_long, peer_idx>>

\* A segment's finally clause: the saved timeout, if one is bound, is set
\* (lines 283-284); then the next segment, or the join and the return.
PeerSegRestore ==
    /\ peer_pc = "restore"
    /\ socket_timeout' = FinallyRestore(peer_original, socket_timeout)
    /\ peer_idx' = peer_idx + 1
    /\ peer_pc' = IF peer_idx + 1 < MaxWindows THEN "export" ELSE "done"
    /\ UNCHANGED <<run_private, route_vars, aux_vars, temp_files, peer_path, peer_original,
                   peer_attempt, peer_long>>

PeerNext ==
    \/ PeerExport
    \/ PeerRead
    \/ PeerUnlink
    \/ PeerBeginAttempt
    \/ PeerOverrideTimeout
    \/ PeerRecognizeCall
    \/ PeerReturnText
    \/ PeerBackoff
    \/ PeerSegTest
    \/ PeerSegRestore

NextConcurrent ==
    \/ Next
    \/ PeerNext

\* Two runs start together; the first one's recording is there, large enough,
\* and as long as the longest that is read whole or the shortest that is split.
InitConcurrent ==
    /\ Init
    /\ file_exists
    /\ file_size = min_file_size
    /\ duration \in {1000 * long_threshold_s, 1000 * long_threshold_s + 1}

SpecConcurrent == InitConcurrent /\ [][NextConcurrent]_vars

(* ------------------------------ the routes ----------------------------- *)

run_vars == <<run_private, socket_timeout, temp_files>>

\* The run is not part of a request modelled here.
RunParked ==
    /\ pc = "none"
    /\ file_exists = FALSE
    /\ file_size = 0
    /\ duration = 0
    /\ socket_timeout = None
    /\ initial_timeout = None
    /\ original_timeout = <<>>
    /\ attempt = 0
    /\ audio_level = 0
    /\ levels_tried = <<>>
    /\ level_errors = <<>>
    /\ attempt_log = <<>>
    /\ sleeps = 0
    /\ segments = <<>>
    /\ idx = 0
    /\ transcriptions = <<>>
    /\ seg_log = <<>>
    /\ temp_files = {}
    /\ result = <<>>

\* Values transcribe_audio_with_speech_recognition returns to the route.
RunResults ==
    { <<"a">>, <<"b", " ">>, EmptyMarker, UnrecognizedMarker, TimeoutMarker,
      ServiceErrorMarker("e1"), TooSmallMarker,
      StitchTranscript(<< <<"a">>, <<"b", " ">> >>),
      StitchTranscript(<< <<"a">>, SegmentErrorMarker(1) >>),
      SegmentsAbortMarker("e1") }

\* Texts the generative service may answer with.
GenTexts == { <<"A">>, <<" ", "A", "\r", "\n">>, <<"## ", "T">> }

\* Outcomes of one generate_content call (response.text included).
GenOutcomes ==
    [kind : {"ok"}, text : GenTexts, detail : {""}]
    \cup [kind : {"error"}, text : {<<>>}, detail : Details]

\* A summary and its combined copy left by an earlier request.
OldSummary == <<"## ", "old">>

\* str.startswith('[')
StartsWithBracket(text) == text # <<>> /\ text[1] = "["

\* The characters of one token: a token of several characters stands for the
\* literal text it spells; any other token is one character.
Chars(token) ==
    CASE token = "Erro: Arquivo de áudio não encontrado" ->
        <<"E", "r", "r", "o", ":", " ", "A", "r", "q", "u", "i", "v", "o", " ", "d", "e", " ",
          "á", "u", "d", "i", "o", " ", "n", "ã", "o", " ", "e", "n", "c", "o", "n", "t", "r",
          "a", "d", "o">>
      [] token = "Erro: Arquivo de áudio muito pequeno ou vazio" ->
        <<"E", "r", "r", "o", ":", " ", "A", "r", "q", "u", "i", "v", "o", " ", "d", "e", " ",
          "á", "u", "d", "i", "o", " ", "m", "u", "i", "t", "o", " ", "p", "e", "q", "u", "e",
          "n", "o", " ", "o", "u", " ", "v", "a", "z", "i", "o">>
      [] token = "Erro: Não foi possível processar o arquivo de áudio. O formato pode não ser suportado. Detalhes: " ->
        <<"E", "r", "r", "o", ":", " ", "N", "ã", "o", " ", "f", "o", "i", " ", "p", "o", "s",
          "s", "í", "v", "e", "l", " ", "p", "r", "o", "c", "e", "s", "s", "a", "r", " ", "o",
          " ", "a", "r", "q", "u", "i", "v", "o", " ", "d", "e", " ", "á", "u", "d", "i", "o",
          ".", " ", "O", " ", "f", "o", "r", "m", "a", "t", "o", " ", "p", "o", "d", "e", " ",
          "n", "ã", "o", " ", "s", "e", "r", " ", "s", "u", "p", "o", "r", "t", "a", "d", "o",
          ".", " ", "D", "e", "t", "a", "l", "h", "e", "s", ":", " ">>
      [] token = "Áudio vazio ou muito baixo" ->
        <<"Á", "u", "d", "i", "o", " ", "v", "a", "z", "i", "o", " ", "o", "u", " ", "m", "u",
          "i", "t", "o", " ", "b", "a", "i", "x", "o">>
      [] token = "Erro: Timeout na transcrição. O arquivo pode ser muito longo ou a conexão está lenta. Tente dividir o áudio em partes menores." ->
        <<"E", "r", "r", "o", ":", " ", "T", "i", "m", "e", "o", "u", "t", " ", "n", "a", " ",
          "t", "r", "a", "n", "s", "c", "r", "i", "ç", "ã", "o", ".", " ", "O", " ", "a", "r",
          "q", "u", "i", "v", "o", " ", "p", "o", "d", "e", " ", "s", "e", "r", " ", "m", "u",
          "i", "t", "o", " ", "l", "o", "n", "g", "o", " ", "o", "u", " ", "a", " ", "c", "o",
          "n", "e", "x", "ã", "o", " ", "e", "s", "t", "á", " ", "l", "e", "n", "t", "a", ".",
          " ", "T", "e", "n", "t", "e", " ", "d", "i", "v", "i", "d", "i", "r", " ", "o", " ",
          "á", "u", "d", "i", "o", " ", "e", "m", " ", "p", "a", "r", "t", "e", "s", " ", "m",
          "e", "n", "o", "r", "e", "s", ".">>
      [] token = "Áudio não pôde ser compreendido - verifique a qualidade do áudio e tente falar mais claramente" ->
        <<"Á", "u", "d", "i", "o", " ", "n", "ã", "o", " ", "p", "ô", "d", "e", " ", "s", "e",
          "r", " ", "c", "o", "m", "p", "r", "e", "e", "n", "d", "i", "d", "o", " ", "-", " ",
          "v", "e", "r", "i", "f", "i", "q", "u", "e", " ", "a", " ", "q", "u", "a", "l", "i",
          "d", "a", "d", "e", " ", "d", "o", " ", "á", "u", "d", "i", "o", " ", "e", " ", "t",
          "e", "n", "t", "e", " ", "f", "a", "l", "a", "r", " ", "m", "a", "i", "s", " ", "c",
          "l", "a", "r", "a", "m", "e", "n", "t", "e">>
      [] token = "Erro no serviço de reconhecimento: " ->
        <<"E", "r", "r", "o", " ", "n", "o", " ", "s", "e", "r", "v", "i", "ç", "o", " ", "d",
          "e", " ", "r", "e", "c", "o", "n", "h", "e", "c", "i", "m", "e", "n", "t", "o", ":",
          " ">>
      [] token = "Erro na transcrição: " ->
        <<"E", "r", "r", "o", " ", "n", "a", " ", "t", "r", "a", "n", "s", "c", "r", "i", "ç",
          "ã", "o", ":", " ">>
      [] token = "Segmento silencioso" ->
        <<"S", "e", "g", "m", "e", "n", "t", "o", " ", "s", "i", "l", "e", "n", "c", "i", "o",
          "s", "o">>
      [] token = "Erro no segmento " ->
        <<"E", "r", "r", "o", " ", "n", "o", " ", "s", "e", "g", "m", "e", "n", "t", "o", " ">>
      [] token = "Erro na transcrição por segmentos: " ->
        <<"E", "r", "r", "o", " ", "n", "a", " ", "t", "r", "a", "n", "s", "c", "r", "i", "ç",
          "ã", "o", " ", "p", "o", "r", " ", "s", "e", "g", "m", "e", "n", "t", "o", "s", ":",
          " ">>
      [] token = "Segmento " ->
        <<"S", "e", "g", "m", "e", "n", "t", "o", " ">>
      [] token = "e1" ->
        <<"e", "1">>
      [] token = "## " ->
        <<"#", "#", " ">>
      [] token = "old" ->
        <<"o", "l", "d">>
      [] token = "\nVocê é um assistente especializado em melhorar transcrições médicas. \nSua tarefa é corrigir e melhorar a seguinte transcrição de uma consulta médica:\n\nTranscrição original:\n" ->
        <<"\n", "V", "o", "c", "ê", " ", "é", " ", "u", "m", " ", "a", "s", "s", "i", "s", "t",
          "e", "n", "t", "e", " ", "e", "s", "p", "e", "c", "i", "a", "l", "i", "z", "a", "d",
          "o", " ", "e", "m", " ", "m", "e", "l", "h", "o", "r", "a", "r", " ", "t", "r", "a",
          "n", "s", "c", "r", "i", "ç", "õ", "e", "s", " ", "m", "é", "d", "i", "c", "a", "s",
          ".", " ", "\n", "S", "u", "a", " ", "t", "a", "r", "e", "f", "a", " ", "é", " ", "c",
          "o", "r", "r", "i", "g", "i", "r", " ", "e", " ", "m", "e", "l", "h", "o", "r", "a",
          "r", " ", "a", " ", "s", "e", "g", "u", "i", "n", "t", "e", " ", "t", "r", "a", "n",
          "s", "c", "r", "i", "ç", "ã", "o", " ", "d", "e", " ", "u", "m", "a", " ", "c", "o",
          "n", "s", "u", "l", "t", "a", " ", "m", "é", "d", "i", "c", "a", ":", "\n", "\n",
          "T", "r", "a", "n", "s", "c", "r", "i", "ç", "ã", "o", " ", "o", "r", "i", "g", "i",
          "n", "a", "l", ":", "\n">>
      [] token = "\n\nPor favor:\n1. ... 5. ...\n\nRetorne apenas o texto melhorado, sem comentários adicionais:\n" ->
        <<"\n", "\n", "P", "o", "r", " ", "f", "a", "v", "o", "r", ":", "\n", "1", ".", " ",
          ".", ".", ".", " ", "5", ".", " ", ".", ".", ".", "\n", "\n", "R", "e", "t", "o",
          "r", "n", "e", " ", "a", "p", "e", "n", "a", "s", " ", "o", " ", "t", "e", "x", "t",
          "o", " ", "m", "e", "l", "h", "o", "r", "a", "d", "o", ",", " ", "s", "e", "m", " ",
          "c", "o", "m", "e", "n", "t", "á", "r", "i", "o", "s", " ", "a", "d", "i", "c", "i",
          "o", "n", "a", "i", "s", ":", "\n">>
      [] token = "## RESUMO DA CONSULTA\n\n" ->
        <<"#", "#", " ", "R", "E", "S", "U", "M", "O", " ", "D", "A", " ", "C", "O", "N", "S",
          "U", "L", "T", "A", "\n", "\n">>
      [] token = "**Data:** [Extrair se mencionada ou indicar como não especificada]\n" ->
        <<"*", "*", "D", "a", "t", "a", ":", "*", "*", " ", "[", "E", "x", "t", "r", "a", "i",
          "r", " ", "s", "e", " ", "m", "e", "n", "c", "i", "o", "n", "a", "d", "a", " ", "o",
          "u", " ", "i", "n", "d", "i", "c", "a", "r", " ", "c", "o", "m", "o", " ", "n", "ã",
          "o", " ", "e", "s", "p", "e", "c", "i", "f", "i", "c", "a", "d", "a", "]", "\n">>
      [] token = "**Paciente:** [Nome se mencionado ou \"Não especificado\"]\n\n" ->
        <<"*", "*", "P", "a", "c", "i", "e", "n", "t", "e", ":", "*", "*", " ", "[", "N", "o",
          "m", "e", " ", "s", "e", " ", "m", "e", "n", "c", "i", "o", "n", "a", "d", "o", " ",
          "o", "u", " ", "\"", "N", "ã", "o", " ", "e", "s", "p", "e", "c", "i", "f", "i", "c",
          "a", "d", "o", "\"", "]", "\n", "\n">>
      [] token = "### QUEIXA PRINCIPAL\n[Motivo principal da consulta]\n\n" ->
        <<"#", "#", "#", " ", "Q", "U", "E", "I", "X", "A", " ", "P", "R", "I", "N", "C", "I",
          "P", "A", "L", "\n", "[", "M", "o", "t", "i", "v", "o", " ", "p", "r", "i", "n", "c",
          "i", "p", "a", "l", " ", "d", "a", " ", "c", "o", "n", "s", "u", "l", "t", "a", "]",
          "\n", "\n">>
      [] token = "### HISTÓRICO\n[Histórico relevante mencionado]\n\n" ->
        <<"#", "#", "#", " ", "H", "I", "S", "T", "Ó", "R", "I", "C", "O", "\n", "[", "H", "i",
          "s", "t", "ó", "r", "i", "c", "o", " ", "r", "e", "l", "e", "v", "a", "n", "t", "e",
          " ", "m", "e", "n", "c", "i", "o", "n", "a", "d", "o", "]", "\n", "\n">>
      [] token = "### EXAME FÍSICO\n[Achados do exame físico se mencionados]\n\n" ->
        <<"#", "#", "#", " ", "E", "X", "A", "M", "E", " ", "F", "Í", "S", "I", "C", "O", "\n",
          "[", "A", "c", "h", "a", "d", "o", "s", " ", "d", "o", " ", "e", "x", "a", "m", "e",
          " ", "f", "í", "s", "i", "c", "o", " ", "s", "e", " ", "m", "e", "n", "c", "i", "o",
          "n", "a", "d", "o", "s", "]", "\n", "\n">>
      [] token = "### CONDUTA/TRATAMENTO\n[Medicações, orientações ou tratamentos prescritos]\n\n" ->
        <<"#", "#", "#", " ", "C", "O", "N", "D", "U", "T", "A", "/", "T", "R", "A", "T", "A",
          "M", "E", "N", "T", "O", "\n", "[", "M", "e", "d", "i", "c", "a", "ç", "õ", "e", "s",
          ",", " ", "o", "r", "i", "e", "n", "t", "a", "ç", "õ", "e", "s", " ", "o", "u", " ",
          "t", "r", "a", "t", "a", "m", "e", "n", "t", "o", "s", " ", "p", "r", "e", "s", "c",
          "r", "i", "t", "o", "s", "]", "\n", "\n">>
      [] token = "### OBSERVAÇÕES IMPORTANTES\n[Pontos relevantes adicionais]\n\n" ->
        <<"#", "#", "#", " ", "O", "B", "S", "E", "R", "V", "A", "Ç", "Õ", "E", "S", " ", "I",
          "M", "P", "O", "R", "T", "A", "N", "T", "E", "S", "\n", "[", "P", "o", "n", "t", "o",
          "s", " ", "r", "e", "l", "e", "v", "a", "n", "t", "e", "s", " ", "a", "d", "i", "c",
          "i", "o", "n", "a", "i", "s", "]", "\n", "\n">>
      [] token = "### RETORNO\n[Orientações sobre retorno se mencionadas]\n\n" ->
        <<"#", "#", "#", " ", "R", "E", "T", "O", "R", "N", "O", "\n", "[", "O", "r", "i", "e",
          "n", "t", "a", "ç", "õ", "e", "s", " ", "s", "o", "b", "r", "e", " ", "r", "e", "t",
          "o", "r", "n", "o", " ", "s", "e", " ", "m", "e", "n", "c", "i", "o", "n", "a", "d",
          "a", "s", "]", "\n", "\n">>
      [] token = "\nVocê é um assistente médico especializado em criar resumos de consultas médicas.\nAnalise a seguinte transcrição seguindo as instruções específicas do usuário:\n\n" ->
        <<"\n", "V", "o", "c", "ê", " ", "é", " ", "u", "m", " ", "a", "s", "s", "i", "s", "t",
          "e", "n", "t", "e", " ", "m", "é", "d", "i", "c", "o", " ", "e", "s", "p", "e", "c",
          "i", "a", "l", "i", "z", "a", "d", "o", " ", "e", "m", " ", "c", "r", "i", "a", "r",
          " ", "r", "e", "s", "u", "m", "o", "s", " ", "d", "e", " ", "c", "o", "n", "s", "u",
          "l", "t", "a", "s", " ", "m", "é", "d", "i", "c", "a", "s", ".", "\n", "A", "n", "a",
          "l", "i", "s", "e", " ", "a", " ", "s", "e", "g", "u", "i", "n", "t", "e", " ", "t",
          "r", "a", "n", "s", "c", "r", "i", "ç", "ã", "o", " ", "s", "e", "g", "u", "i", "n",
          "d", "o", " ", "a", "s", " ", "i", "n", "s", "t", "r", "u", "ç", "õ", "e", "s", " ",
          "e", "s", "p", "e", "c", "í", "f", "i", "c", "a", "s", " ", "d", "o", " ", "u", "s",
          "u", "á", "r", "i", "o", ":", "\n", "\n">>
      [] token = "INSTRUÇÕES DO USUÁRIO:\n" ->
        <<"I", "N", "S", "T", "R", "U", "Ç", "Õ", "E", "S", " ", "D", "O", " ", "U", "S", "U",
          "Á", "R", "I", "O", ":", "\n">>
      [] token = "\n\nTranscrição:\n" ->
        <<"\n", "\n", "T", "r", "a", "n", "s", "c", "r", "i", "ç", "ã", "o", ":", "\n">>
      [] token = "\n\nPor favor, crie um resumo seguindo exatamente as instruções fornecidas pelo usuário acima.\nMantenha o resumo profissional e focado nos aspectos médicos mais importantes.\n" ->
        <<"\n", "\n", "P", "o", "r", " ", "f", "a", "v", "o", "r", ",", " ", "c", "r", "i",
          "e", " ", "u", "m", " ", "r", "e", "s", "u", "m", "o", " ", "s", "e", "g", "u", "i",
          "n", "d", "o", " ", "e", "x", "a", "t", "a", "m", "e", "n", "t", "e", " ", "a", "s",
          " ", "i", "n", "s", "t", "r", "u", "ç", "õ", "e", "s", " ", "f", "o", "r", "n", "e",
          "c", "i", "d", "a", "s", " ", "p", "e", "l", "o", " ", "u", "s", "u", "á", "r", "i",
          "o", " ", "a", "c", "i", "m", "a", ".", "\n", "M", "a", "n", "t", "e", "n", "h", "a",
          " ", "o", " ", "r", "e", "s", "u", "m", "o", " ", "p", "r", "o", "f", "i", "s", "s",
          "i", "o", "n", "a", "l", " ", "e", " ", "f", "o", "c", "a", "d", "o", " ", "n", "o",
          "s", " ", "a", "s", "p", "e", "c", "t", "o", "s", " ", "m", "é", "d", "i", "c", "o",
          "s", " ", "m", "a", "i", "s", " ", "i", "m", "p", "o", "r", "t", "a", "n", "t", "e",
          "s", ".", "\n">>
      [] token = "\nVocê é um assistente médico especializado em criar resumos de consultas médicas.\nAnalise a seguinte transcrição e crie um resumo estruturado e profissional:\n\nTranscrição:\n" ->
        <<"\n", "V", "o", "c", "ê", " ", "é", " ", "u", "m", " ", "a", "s", "s", "i", "s", "t",
          "e", "n", "t", "e", " ", "m", "é", "d", "i", "c", "o", " ", "e", "s", "p", "e", "c",
          "i", "a", "l", "i", "z", "a", "d", "o", " ", "e", "m", " ", "c", "r", "i", "a", "r",
          " ", "r", "e", "s", "u", "m", "o", "s", " ", "d", "e", " ", "c", "o", "n", "s", "u",
          "l", "t", "a", "s", " ", "m", "é", "d", "i", "c", "a", "s", ".", "\n", "A", "n", "a",
          "l", "i", "s", "e", " ", "a", " ", "s", "e", "g", "u", "i", "n", "t", "e", " ", "t",
          "r", "a", "n", "s", "c", "r", "i", "ç", "ã", "o", " ", "e", " ", "c", "r", "i", "e",
          " ", "u", "m", " ", "r", "e", "s", "u", "m", "o", " ", "e", "s", "t", "r", "u", "t",
          "u", "r", "a", "d", "o", " ", "e", " ", "p", "r", "o", "f", "i", "s", "s", "i", "o",
          "n", "a", "l", ":", "\n", "\n", "T", "r", "a", "n", "s", "c", "r", "i", "ç", "ã",
          "o", ":", "\n">>
      [] token = "\n\nPor favor, crie um resumo seguindo esta estrutura:\n\n" ->
        <<"\n", "\n", "P", "o", "r", " ", "f", "a", "v", "o", "r", ",", " ", "c", "r", "i",
          "e", " ", "u", "m", " ", "r", "e", "s", "u", "m", "o", " ", "s", "e", "g", "u", "i",
          "n", "d", "o", " ", "e", "s", "t", "a", " ", "e", "s", "t", "r", "u", "t", "u", "r",
          "a", ":", "\n", "\n">>
      [] token = "Mantenha o resumo conciso, profissional e focado nos aspectos médicos mais importantes.\n" ->
        <<"M", "a", "n", "t", "e", "n", "h", "a", " ", "o", " ", "r", "e", "s", "u", "m", "o",
          " ", "c", "o", "n", "c", "i", "s", "o", ",", " ", "p", "r", "o", "f", "i", "s", "s",
          "i", "o", "n", "a", "l", " ", "e", " ", "f", "o", "c", "a", "d", "o", " ", "n", "o",
          "s", " ", "a", "s", "p", "e", "c", "t", "o", "s", " ", "m", "é", "d", "i", "c", "o",
          "s", " ", "m", "a", "i", "s", " ", "i", "m", "p", "o", "r", "t", "a", "n", "t", "e",
          "s", ".", "\n">>
      [] token = "# CONVERSA COMPLETA - " ->
        <<"#", " ", "C", "O", "N", "V", "E", "R", "S", "A", " ", "C", "O", "M", "P", "L", "E",
          "T", "A", " ", "-", " ">>
      [] token = "## TRANSCRIÇÃO ORIGINAL\n\n" ->
        <<"#", "#", " ", "T", "R", "A", "N", "S", "C", "R", "I", "Ç", "Ã", "O", " ", "O", "R",
          "I", "G", "I", "N", "A", "L", "\n", "\n">>
      [] token = "## RESUMO GERADO PELA IA\n\n" ->
        <<"#", "#", " ", "R", "E", "S", "U", "M", "O", " ", "G", "E", "R", "A", "D", "O", " ",
          "P", "E", "L", "A", " ", "I", "A", "\n", "\n">>
      [] token = "e2" ->
        <<"e", "2">>
      [] OTHER -> <<token>>

\* needle in haystack: str.__contains__ compares characters, so both strings
\* are spelled out before they are compared.
Contains(haystack, needle) ==
    LET RECURSIVE Spell(_)
        Spell(str) == IF str = <<>> THEN <<>> ELSE Chars(Head(str)) \o Spell(Tail(str))
    IN  \E h \in {Spell(haystack)}, n \in {Spell(needle)} :
            \/ n = <<>>
            \/ \E i \in 1..(Len(h) - Len(n) + 1) :
                   h[i] = n[1] /\ SubSeq(h, i, i + Len(n) - 1) = n

\* Variant: the marker prefix is not looked at.
ImproveSkips_noPrefixTest(has_model, raw) == ~has_model \/ raw = <<>>

\* if not model or not raw_transcription or raw_transcription.startswith('[')
ImproveSkips(has_model, raw) == ~has_model \/ raw = <<>> \/ StartsWithBracket(raw)

\* The prompt of improve_transcription_with_gemini.
ImprovePrompt(raw) ==
    <<"\nVocê é um assistente especializado em melhorar transcrições médicas. \nSua tarefa é corrigir e melhorar a seguinte transcrição de uma consulta médica:\n\nTranscrição original:\n">>
    \o raw
    \o <<"\n\nPor favor:\n1. ... 5. ...\n\nRetorne apenas o texto melhorado, sem comentários adicionais:\n">>

\* Variant: the failure of the call is raised to the caller.
ImproveOutcome_raises(g, raw) ==
    IF g.kind = "ok" THEN [raised |-> FALSE, value |-> strip(g.text)]
    ELSE [raised |-> TRUE, value |-> <<>>]

\* return response.text.strip() / except Exception: return raw_transcription
ImproveOutcome(g, raw) ==
    IF g.kind = "ok" THEN [raised |-> FALSE, value |-> strip(g.text)]
    ELSE [raised |-> FALSE, value |-> raw]

\* The structure the default summary prompt asks for (pictographs left out).
DefaultLayout ==
    << "## RESUMO DA CONSULTA\n\n",
       "**Data:** [Extrair se mencionada ou indicar como não especificada]\n",
       "**Paciente:** [Nome se mencionado ou \"Não especificado\"]\n\n",
       "### QUEIXA PRINCIPAL\n[Motivo principal da consulta]\n\n",
       "### HISTÓRICO\n[Histórico relevante mencionado]\n\n",
       "### EXAME FÍSICO\n[Achados do exame físico se mencionados]\n\n",
       "### CONDUTA/TRATAMENTO\n[Medicações, orientações ou tratamentos prescritos]\n\n",
       "### OBSERVAÇÕES IMPORTANTES\n[Pontos relevantes adicionais]\n\n",
       "### RETORNO\n[Orientações sobre retorno se mencionadas]\n\n" >>

CustomPrompt(custom_prompt, transcription_content) ==
    <<"\nVocê é um assistente médico especializado em criar resumos de consultas médicas.\nAnalise a seguinte transcrição seguindo as instruções específicas do usuário:\n\n",
      "INSTRUÇÕES DO USUÁRIO:\n">>
    \o custom_prompt
    \o <<"\n\nTranscrição:\n">>
    \o transcription_content
    \o <<"\n\nPor favor, crie um resumo seguindo exatamente as instruções fornecidas pelo usuário acima.\nMantenha o resumo profissional e focado nos aspectos médicos mais importantes.\n">>

DefaultPrompt(transcription_content) ==
    <<"\nVocê é um assistente médico especializado em criar resumos de consultas médicas.\nAnalise a seguinte transcrição e crie um resumo estruturado e profissional:\n\nTranscrição:\n">>
    \o transcription_content
    \o <<"\n\nPor favor, crie um resumo seguindo esta estrutura:\n\n">>
    \o DefaultLayout
    \o <<"Mantenha o resumo conciso, profissional e focado nos aspectos médicos mais importantes.\n">>

\* custom_prompt = data.get('custom_prompt', '').strip(); if custom_prompt: ... else: ...
SummaryPrompt(posted, transcription_content) ==
    IF strip(posted) # <<>> THEN CustomPrompt(strip(posted), transcription_content)
    ELSE DefaultPrompt(transcription_content)

\* Variant: the summary file is written whatever the call gave.
SummaryWritten_onFailureToo(g, before) == g.text

\* The summary file after the call: written only once the call has returned text.
SummaryWritten(g, before) == IF g.kind = "ok" THEN g.text ELSE before

\* The combined copy written after the summary.
CombinedContent(transcription_content, summary) ==
    <<"# CONVERSA COMPLETA - ", "## TRANSCRIÇÃO ORIGINAL\n\n">>
    \o transcription_content
    \o <<"## RESUMO GERADO PELA IA\n\n">>
    \o summary

InitRoutes ==
    /\ RunParked
    /\ PeerInit
    /\ RenderIdle
    /\ FsIdle
    /\ rt_pc = "idle"
    /\ rt_op = "none"
    /\ model_available \in BOOLEAN
    /\ raw_transcription = <<>>
    /\ transcription = <<>>
    /\ improve_raised = FALSE
    /\ generative_calls = 0
    /\ gen_log = <<>>
    /\ prompt = <<>>
    /\ custom_in = <<>>
    /\ transcript_file \in { <<"a">>, <<"A">>, EmptyMarker,
                             StitchTranscript(<< <<"a">>, <<"b", " ">> >>), NoFile }
    /\ summary_file \in {NoFile, OldSummary}
    /\ combined_file = IF summary_file = NoFile THEN NoFile
                       ELSE CombinedContent(<<"old">>, OldSummary)
    /\ prior_summary = summary_file
    /\ prior_combined = combined_file
    /\ response = NoResponse
    /\ audio_size = 0
    /\ wav_size = 0
    /\ conv_temp = {}
    /\ recordings = {}

\* Line 298, on entry of improve_transcription_with_gemini(raw).
\* after: where the caller continues once improve has returned.
EnterImprove(raw, after) ==
    IF ImproveSkips(model_available, raw)
    THEN /\ transcription' = raw
         /\ rt_pc' = after
    ELSE /\ rt_pc' = "generate"
         /\ UNCHANGED transcription

\* A caller applies improve_transcription_with_gemini to a text.
ImproveCall ==
    /\ rt_pc = "idle"
    /\ rt_op' = "improve"
    /\ \E raw \in RunResults \cup {<<>>} :
         /\ raw_transcription' = raw
         /\ EnterImprove(raw, "returned")
    /\ UNCHANGED <<run_vars, peer_vars, aux_vars, model_available, improve_raised, generative_calls, gen_log, prompt,
                   custom_in, transcript_file, summary_file, combined_file, prior_summary, prior_combined, response, audio_size, wav_size, conv_temp, recordings>>

\* transcribe_recording after the run has returned its text: improve it if
\* the model is there and the text is no marker, else keep it.
TranscribeReturned ==
    /\ rt_pc = "idle"
    /\ rt_op' = "transcribe"
    /\ \E text \in RunResults :
         /\ raw_transcription' = text
         /\ IF model_available /\ ~StartsWithBracket(text)
            THEN EnterImprove(text, "save")
            ELSE /\ transcription' = text
                 /\ rt_pc' = "save"
    /\ UNCHANGED <<run_vars, peer_vars, aux_vars, model_available, improve_raised, generative_calls, gen_log, prompt,
                   custom_in, transcript_file, summary_file, combined_file, prior_summary, prior_combined, response, audio_size, wav_size, conv_temp, recordings>>

\* The generate_content call of improve and its handlers; an exception
\* leaving improve reaches the route's handler, which answers 500.
ImproveGenerate ==
    /\ rt_pc = "generate"
    /\ prompt' = ImprovePrompt(raw_transcription)
    /\ generative_calls' = generative_calls + 1
    /\ \E g \in GenOutcomes :
         /\ gen_log' = Append(gen_log, g)
         /\ improve_raised' = ImproveOutcome(g, raw_transcription).raised
         /\ transcription' = IF improve_raised' THEN transcription
                             ELSE ImproveOutcome(g, raw_transcription).value
         /\ IF rt_op = "improve"
            THEN /\ rt_pc' = "returned"
                 /\ UNCHANGED response
            ELSE IF improve_raised'
            THEN /\ rt_pc' = "responded"
                 /\ response' = [success |-> FALSE, status |-> 500,
                                 message |-> <<"Erro na transcrição: ", g.detail>>]
            ELSE /\ rt_pc' = "save"
                 /\ UNCHANGED response
    /\ UNCHANGED <<run_vars, peer_vars, aux_vars, rt_op, model_available, raw_transcription,
                   custom_in, transcript_file, summary_file, combined_file, prior_summary, prior_combined, audio_size, wav_size, conv_temp, recordings>>

\* The route writes the transcript file and answers.
SaveTranscript ==
    /\ rt_pc = "save"
    /\ transcript_file' = transcription
    /\ response' = [success |-> TRUE, status |-> 200,
                    message |-> <<"Transcrição concluída com sucesso!">>]
    /\ rt_pc' = "responded"
    /\ UNCHANGED <<run_vars, peer_vars, aux_vars, rt_op, model_available, raw_transcription, transcription, improve_raised, generative_calls, gen_log, prompt,
                   custom_in, summary_file, combined_file, prior_summary, prior_combined, audio_size, wav_size, conv_temp, recordings>>

\* generate_summary up to the generate_content call.
SummaryRequest ==
    /\ rt_pc = "idle"
    /\ rt_op' = "summary"
    /\ \E posted \in { <<>>, <<" ">>, <<"x">>, <<" ", "x", " ">>, <<"x", " ", "y">> } :
         /\ custom_in' = posted
         /\ IF transcript_file = NoFile
            THEN /\ response' = [success |-> FALSE, status |-> 404,
                                 message |-> <<"Arquivo não encontrado">>]
                 /\ rt_pc' = "responded"
                 /\ UNCHANGED prompt
            ELSE IF ~model_available
            THEN /\ response' = [success |-> FALSE, status |-> 500,
                                 message |-> <<"IA não configurada. Configure a GEMINI_API_KEY no arquivo .env">>]
                 /\ rt_pc' = "responded"
                 /\ UNCHANGED prompt
            ELSE /\ prompt' = SummaryPrompt(posted, transcript_file)
                 /\ rt_pc' = "summarize"
                 /\ UNCHANGED response
    /\ UNCHANGED <<run_vars, peer_vars, aux_vars, model_available, raw_transcription, transcription, improve_raised, generative_calls,
                   gen_log, transcript_file, summary_file, combined_file, prior_summary, prior_combined, audio_size, wav_size, conv_temp, recordings>>

\* The generate_content call of generate_summary, the two files, the answer.
SummaryGenerate ==
    /\ rt_pc = "summarize"
    /\ generative_calls' = generative_calls + 1
    /\ \E g \in GenOutcomes :
         /\ gen_log' = Append(gen_log, g)
         /\ summary_file' = SummaryWritten(g, summary_file)
         /\ IF g.kind = "ok"
            THEN /\ combined_file' = CombinedContent(transcript_file, g.text)
                 /\ response' = [success |-> TRUE, status |-> 200,
                                 message |-> <<"Resumo gerado com sucesso!">>
                                    \o (IF strip(custom_in) # <<>>
                                        THEN <<" (personalizado)">> ELSE <<>>)]
            ELSE /\ response' = [success |-> FALSE, status |-> 500,
                                 message |-> <<"Erro ao gerar resumo com IA: ", g.detail>>]
                 /\ UNCHANGED combined_file
    /\ rt_pc' = "responded"
    /\ UNCHANGED <<run_vars, peer_vars, aux_vars, rt_op, model_available, raw_transcription, transcription, improve_raised, prompt,
                   custom_in, transcript_file, prior_summary, prior_combined, audio_size, wav_size, conv_temp, recordings>>

\* save_recording: the posted bytes enter convert_to_wav, which writes them
\* to its temporary input file.
SaveRequest ==
    /\ rt_pc = "idle"
    /\ rt_op' = "save"
    /\ \E size \in FileSizes : audio_size' = size
    /\ conv_temp' = {"input"}
    /\ rt_pc' = "convert"
    /\ UNCHANGED <<run_vars, peer_vars, aux_vars, model_available, raw_transcription, transcription, improve_raised, generative_calls, gen_log, prompt,
                   custom_in, transcript_file, summary_file, combined_file, prior_summary, prior_combined, response, wav_size, recordings>>

\* convert_to_wav: decode, export, read back, unlink both temporary files;
\* on any exception the bytes posted are returned as they are.
ConvertToWav ==
    /\ rt_pc = "convert"
    /\ \/ \E converted \in FileSizes :
            /\ wav_size' = converted
            /\ conv_temp' = {}
       \/ /\ wav_size' = audio_size
          /\ conv_temp' \in {{"input"}, {"input", "output"}}
    /\ rt_pc' = "store"
    /\ UNCHANGED <<run_vars, peer_vars, aux_vars, rt_op, model_available, raw_transcription, transcription, improve_raised, generative_calls, gen_log, prompt,
                   custom_in, transcript_file, summary_file, combined_file, prior_summary, prior_combined, response, audio_size, recordings>>

\* save_recording writes what convert_to_wav returned and answers.
StoreRecording ==
    /\ rt_pc = "store"
    /\ recordings' = recordings \cup {wav_size}
    /\ response' = [success |-> TRUE, status |-> 200,
                    message |-> <<"Gravação salva com sucesso!">>]
    /\ rt_pc' = "responded"
    /\ UNCHANGED <<run_vars, peer_vars, aux_vars, rt_op, model_available, raw_transcription, transcription, improve_raised, generative_calls, gen_log, prompt,
                   custom_in, transcript_file, summary_file, combined_file, prior_summary, prior_combined, audio_size, wav_size, conv_temp>>

NextRoutes ==
    \/ ImproveCall
    \/ TranscribeReturned
    \/ ImproveGenerate
    \/ SaveTranscript
    \/ SummaryRequest
    \/ SummaryGenerate
    \/ SaveRequest
    \/ ConvertToWav
    \/ StoreRecording

SpecRoutes == InitRoutes /\ [][NextRoutes]_vars

(* -------------------------- document renderers ------------------------ *)

\* Lines of the texts handed to the renderers (sequences of characters).
MarkupLines ==
    { <<>>, <<" ">>,
      <<"#", "#", " ", "T">>,
      <<"#", "#", "#", " ", "S">>,
      <<"*", "*", "B", "*", "*">>,
      <<"P">>,
      <<"#">>,
      <<"#", "#", "#", "#">> }

\* str.startswith / str.endswith
StartsWith(line, prefix) ==
    Len(prefix) <= Len(line) /\ SubSeq(line, 1, Len(prefix)) = prefix
EndsWith(line, suffix) ==
    Len(suffix) <= Len(line)
        /\ SubSeq(line, Len(line) - Len(suffix) + 1, Len(line)) = suffix

\* line[n:] and line[2:-2]
From(line, n) == SubSeq(line, n + 1, Len(line))
Unwrap(line) == SubSeq(line, 3, Len(line) - 2)

IsHeading(line) == StartsWith(line, <<"#", "#", " ">>)
IsSubheading(line) == StartsWith(line, <<"#", "#", "#", " ">>)
IsBold(line) == StartsWith(line, <<"*", "*">>) /\ EndsWith(line, <<"*", "*">>)

Block(type, text) == [type |-> type, text |-> text]

\* One iteration of the loop of create_pdf_from_text: what it appends to story.
PdfBlocks(raw_line) ==
    LET line == strip(raw_line) IN
    IF line = <<>> THEN << Block("spacer", <<>>) >>
    ELSE IF IsHeading(line) THEN << Block("heading", strip(From(line, 3))) >>
    ELSE IF IsSubheading(line) THEN << Block("subheading", strip(From(line, 4))) >>
    ELSE IF IsBold(line) THEN << Block("emphasized", strip(Unwrap(line))) >>
    ELSE << Block("normal", line) >>

\* if '##' in text
HasMarker(lines) == \E i \in 1..Len(lines) : Contains(lines[i], <<"#", "#">>)

\* One iteration of the loop of create_docx_from_text, in the branch chosen
\* by the test on the whole text: what it adds to the document.
DocxBlocks(raw_line, marked) ==
    LET line == strip(raw_line) IN
    IF marked
    THEN IF IsHeading(line) THEN << Block("heading", From(line, 3)) >>
         ELSE IF IsSubheading(line) THEN << Block("subheading", From(line, 4)) >>
         ELSE IF IsBold(line) THEN << Block("emphasized", Unwrap(line)) >>
         ELSE IF line # <<>> THEN << Block("normal", line) >>
         ELSE <<>>
    ELSE IF line # <<>> THEN << Block("normal", raw_line) >>
         ELSE <<>>

InitRender ==
    /\ RunParked
    /\ PeerInit
    /\ RouteIdle
    /\ FsIdle
    /\ rd_pc = "pdf"
    /\ markup \in UNION { [1..n -> MarkupLines] : n \in 1..MaxLines }
    /\ line_no = 0
    /\ story = <<>>
    /\ docx_body = <<>>
    /\ docx_marked = FALSE

render_frame == <<run_vars, peer_vars, route_vars, fs_vars>>

\* for line in lines (create_pdf_from_text): one line of the text
PdfScanLine ==
    /\ rd_pc = "pdf"
    /\ line_no < Len(markup)
    /\ story' = story \o PdfBlocks(markup[line_no + 1])
    /\ line_no' = line_no + 1
    /\ UNCHANGED <<render_frame, rd_pc, markup, docx_body, docx_marked>>

\* The loop is over: doc.build(story); the same text then goes to the other renderer.
PdfBuild ==
    /\ rd_pc = "pdf"
    /\ line_no = Len(markup)
    /\ rd_pc' = "docx_test"
    /\ line_no' = 0
    /\ UNCHANGED <<render_frame, markup, story, docx_body, docx_marked>>

\* create_docx_from_text chooses its branch.
DocxTest ==
    /\ rd_pc = "docx_test"
    /\ docx_marked' = HasMarker(markup)
    /\ rd_pc' = "docx"
    /\ UNCHANGED <<render_frame, markup, line_no, story, docx_body>>

\* One line of the text in the loop of the chosen branch.
DocxScanLine ==
    /\ rd_pc = "docx"
    /\ line_no < Len(markup)
    /\ docx_body' = docx_body \o DocxBlocks(markup[line_no + 1], docx_marked)
    /\ line_no' = line_no + 1
    /\ UNCHANGED <<render_frame, rd_pc, markup, story, docx_marked>>

\* The loop is over: doc.save(buffer).
DocxSave ==
    /\ rd_pc = "docx"
    /\ line_no = Len(markup)
    /\ rd_pc' = "done"
    /\ UNCHANGED <<render_frame, markup, line_no, story, docx_body, docx_marked>>

NextRender ==
    \/ PdfScanLine
    \/ PdfBuild
    \/ DocxTest
    \/ DocxScanLine
    \/ DocxSave

SpecRender == InitRender /\ [][NextRender]_vars

(* ------------------ the directories and their routes ------------------- *)

\* Registered user names (session['user_id'] is the user name).
UserIds == { <<"a", "b">>, <<"a", "b", "c">> }

\* Sanitized patient names / new names.
Labels == { "x", "y" }

\* f'{user_id}_{name}_{timestamp}' without its extension; the timestamp is
\* '%Y%m%d_%H%M%S', date "d" and time "t" of the one instant modelled.
RecBase(user_id, name) == user_id \o <<"_", name, "_", "d", "_", "t">>

\* old_filename.split('_')[-1], extension aside: what follows the last '_'.
RECURSIVE LastField(_)
LastField(name) ==
    IF name = <<>> \/ name[Len(name)] = "_" THEN <<>>
    ELSE LastField(SubSeq(name, 1, Len(name) - 1)) \o <<name[Len(name)]>>

\* f'{user_id}_{safe_new_name}_{timestamp}' of rename_recording, without
\* its extension.
RenamedBase(user_id, name, old_base) == user_id \o <<"_", name, "_">> \o LastField(old_base)

\* Names a request may carry: those save_recording gives and those
\* rename_recording gives.
Bases ==
    { RecBase(u, n) : u \in UserIds, n \in Labels }
        \cup { RenamedBase(u, n, RecBase(u, n)) : u \in UserIds, n \in Labels }

WavSuffix == ".wav"
TranscriptSuffix == "_transcricao.txt"
\* generate_summary derives its names from the transcript's file name.
SummarySuffix == "_transcricao_resumo.txt"
CombinedSuffix == "_transcricao_conversa_completa.txt"
\* The summary name delete_recording derives from the recording's file name.
DeletedSummarySuffix == "_resumo.txt"

File(base, suffix, owner) == [base |-> base, suffix |-> suffix, owner |-> owner]

\* The files of a directory listing with a given name.
At(files, base, suffix) == { f \in files : f.base = base /\ f.suffix = suffix }

\* os.path.exists
Exists(base, suffix) == At(disk, base, suffix) # {}

\* Writing (or renaming onto) a name replaces what was there.
Put(files, base, suffix, owner) ==
    (files \ At(files, base, suffix)) \cup { File(base, suffix, owner) }

\* if not filename.startswith(user_id): 'Acesso negado'
AccessGranted(filename, user_id) == StartsWith(filename, user_id)

\* What user did to files made from somebody else's recording.
Touch(user, files, how) ==
    { [actor |-> user, owner |-> f.owner, how |-> how] : f \in { g \in files : g.owner # user } }

InitFiles ==
    /\ RunParked
    /\ PeerInit
    /\ RouteIdle
    /\ RenderIdle
    /\ disk = {}
    /\ inflight = {}
    /\ fs_answer = "none"
    /\ requests = 0
    /\ foreign_access = {}

fs_frame == <<run_vars, peer_vars, route_vars, render_vars>>

\* A request arrives.
Receive ==
    /\ requests < MaxRequests
    /\ requests' = requests + 1

\* The request goes on to its next statement.
Goto(r, at, suffix) ==
    /\ inflight' = (inflight \ {r}) \cup { [r EXCEPT !.at = at, !.suffix = suffix] }
    /\ UNCHANGED fs_answer

\* The request returns its response.
Answer(r, answer) ==
    /\ inflight' = inflight \ {r}
    /\ fs_answer' = answer

\* Requests in flight are told apart by the worker serving them.
FreeSlot == CHOOSE k \in 1..MaxInflight : \A q \in inflight : q.id # k

\* Head of a file-addressed route: the ownership test (403), for a rename
\* the test of the sanitized name (400), then the first os.path.exists (404).
\* A request that passes them is being served: where it stands (at), the
\* file it is working on (suffix), the new name of a rename, whose
\* recording what it read was made from (source, history), and the files a
\* listing has still to visit (todo).
Admit(op, user, base, name, at, suffix) ==
    IF ~AccessGranted(base, user)
    THEN /\ fs_answer' = "denied"
         /\ UNCHANGED inflight
    ELSE IF name = ""
    THEN /\ fs_answer' = "invalid"
         /\ UNCHANGED inflight
    ELSE IF ~Exists(base, suffix)
    THEN /\ fs_answer' = "notfound"
         /\ UNCHANGED inflight
    ELSE /\ inflight' = inflight \cup
                { [id |-> FreeSlot, op |-> op, user |-> user, base |-> base,
                   name |-> name, at |-> at, suffix |-> suffix, source |-> user,
                   todo |-> {}] }
         /\ UNCHANGED fs_answer

\* save_recording by a logged-in user: the one write of line 615.
FsSave ==
    /\ Receive
    /\ \E u \in UserIds, n \in Labels :
         /\ Cardinality({ f \in Put(disk, RecBase(u, n), WavSuffix, u) :
                             f.suffix = WavSuffix }) <= MaxRecordings
         /\ disk' = Put(disk, RecBase(u, n), WavSuffix, u)
         /\ foreign_access' =
                foreign_access \cup Touch(u, At(disk, RecBase(u, n), WavSuffix), "change")
    /\ fs_answer' = "ok"
    /\ UNCHANGED <<fs_frame, inflight>>

\* transcribe_recording: the ownership test and os.path.exists (lines 642-648).
FsTranscribeBegin ==
    /\ Receive
    /\ Cardinality(inflight) < MaxInflight
    /\ \E u \in UserIds, b \in Bases : Admit("transcribe", u, b, "-", "run", WavSuffix)
    /\ UNCHANGED <<fs_frame, disk, foreign_access>>

\* transcribe_recording: the run (line 653), followed through its accesses to
\* the recording, one to a step: os.path.exists (line 86), os.path.getsize
\* (line 90), the decoder's read (line 110), and after a failed conversion
\* the direct reads (lines 163, 171).  Each read that opens the file tells
\* whose recording the audio in hand was made from.  The run never raises:
\* whatever ends it, a text or a marker is handed to the route.  What the
\* run does in the temporary directory and to the timeout is the subject of
\* Spec and SpecConcurrent and is not followed here.
FsTranscribeRun ==
    /\ UNCHANGED requests
    /\ \E r \in inflight :
         /\ r.op = "transcribe"
         /\ LET there == Exists(r.base, WavSuffix)
                Step(at) == [r EXCEPT !.at = at]
                Returned == [r EXCEPT !.at = "write", !.suffix = TranscriptSuffix]
                Opened(q) == [q EXCEPT !.source =
                                 (CHOOSE f \in At(disk, r.base, WavSuffix) : TRUE).owner]
                Became(q) == /\ inflight' = (inflight \ {r}) \cup {q}
                             /\ foreign_access' =
                                    IF there /\ r.at \in {"run_decode", "run_direct", "run_final"}
                                    THEN foreign_access
                                             \cup Touch(r.user, At(disk, r.base, WavSuffix), "read")
                                    ELSE foreign_access
            IN  CASE r.at = "run" ->
                       \* line 86: a missing file gives its marker
                       Became(IF there THEN Step("run_size") ELSE Returned)
                  [] r.at = "run_size" ->
                       \* line 90: getsize raises on a missing file (handler of
                       \* lines 220-224); a small file gives its marker
                       IF there THEN Became(Step("run_decode")) \/ Became(Returned)
                       ELSE Became(Returned)
                  [] r.at = "run_decode" ->
                       \* line 110: the decoder reads the file; the conversion and
                       \* the recognition follow, or the fallback
                       IF there THEN Became(Opened(Returned)) \/ Became(Opened(Step("run_direct")))
                       ELSE Became(Step("run_direct"))
                  [] r.at = "run_direct" ->
                       \* line 163
                       IF there THEN Became(Opened(Returned)) \/ Became(Opened(Step("run_final")))
                       ELSE Became(Step("run_final"))
                  [] r.at = "run_final" ->
                       \* line 171: its failure gives the read-error marker
                       IF there THEN Became(Opened(Returned)) ELSE Became(Returned)
                  [] OTHER -> FALSE
    /\ UNCHANGED <<fs_frame, disk, fs_answer>>

\* transcribe_recording: the transcript is written (lines 661-666).
FsTranscribeEnd ==
    /\ UNCHANGED requests
    /\ \E r \in inflight :
         /\ r.op = "transcribe"
         /\ r.at = "write"
         /\ disk' = Put(disk, r.base, TranscriptSuffix, r.source)
         /\ foreign_access' =
                foreign_access
                    \cup Touch(r.user, At(disk, r.base, TranscriptSuffix)
                                          \cup { File(r.base, TranscriptSuffix, r.source) },
                               "change")
         /\ Answer(r, "ok")
    /\ UNCHANGED fs_frame

\* generate_summary: the ownership test and os.path.exists (lines 844-850).
FsSummaryBegin ==
    /\ Receive
    /\ Cardinality(inflight) < MaxInflight
    /\ \E u \in UserIds, b \in Bases : Admit("summary", u, b, "-", "read", TranscriptSuffix)
    /\ UNCHANGED <<fs_frame, disk, foreign_access>>

\* generate_summary: the transcript is opened and read (lines 853-854); if
\* it is gone the open raises and the outer handler answers 500.
FsSummaryRead ==
    /\ UNCHANGED requests
    /\ \E r \in inflight :
         /\ r.op = "summary"
         /\ r.at = "read"
         /\ IF Exists(r.base, TranscriptSuffix)
            THEN /\ inflight' = (inflight \ {r}) \cup
                        { [r EXCEPT !.at = "generate",
                                    !.source = (CHOOSE f \in At(disk, r.base, TranscriptSuffix) :
                                                   TRUE).owner] }
                 /\ foreign_access' =
                        foreign_access
                            \cup Touch(r.user, At(disk, r.base, TranscriptSuffix), "read")
                 /\ UNCHANGED fs_answer
            ELSE /\ Answer(r, "error")
                 /\ UNCHANGED foreign_access
    /\ UNCHANGED <<fs_frame, disk>>

\* generate_summary: without the model, or when generate_content raises,
\* the answer is 500 and nothing is written (lines 856-860, 963-967).
FsSummaryGenerate ==
    /\ UNCHANGED requests
    /\ \E r \in inflight :
         /\ r.op = "summary"
         /\ r.at = "generate"
         /\ \/ Goto(r, "write", SummarySuffix)
            \/ Answer(r, "error")
    /\ UNCHANGED <<fs_frame, disk, foreign_access>>

\* generate_summary: the summary is written (line 924).
FsSummaryWrite ==
    /\ UNCHANGED requests
    /\ \E r \in inflight :
         /\ r.op = "summary"
         /\ r.at = "write"
         /\ disk' = Put(disk, r.base, SummarySuffix, r.source)
         /\ foreign_access' =
                foreign_access
                    \cup Touch(r.user, At(disk, r.base, SummarySuffix)
                                          \cup { File(r.base, SummarySuffix, r.source) },
                               "change")
         /\ Goto(r, "copy", CombinedSuffix)
    /\ UNCHANGED fs_frame

\* generate_summary: the combined copy is written (line 950) and the
\* request answers.
FsSummaryCopy ==
    /\ UNCHANGED requests
    /\ \E r \in inflight :
         /\ r.op = "summary"
         /\ r.at = "copy"
         /\ disk' = Put(disk, r.base, CombinedSuffix, r.source)
         /\ foreign_access' =
                foreign_access
                    \cup Touch(r.user, At(disk, r.base, CombinedSuffix)
                                          \cup { File(r.base, CombinedSuffix, r.source) },
                               "change")
         /\ Answer(r, "ok")
    /\ UNCHANGED fs_frame

\* The file delete_recording turns to after the one it has dealt with:
\* the recording, the transcript, the summary name it derives, then none.
AfterDeleted(suffix) ==
    CASE suffix = WavSuffix -> TranscriptSuffix
      [] suffix = TranscriptSuffix -> DeletedSummarySuffix
      [] suffix = DeletedSummarySuffix -> "none"

\* delete_recording: the ownership test and os.path.exists of the
\* recording (lines 1166-1171).
FsDeleteBegin ==
    /\ Receive
    /\ Cardinality(inflight) < MaxInflight
    /\ \E u \in UserIds, b \in Bases : Admit("delete", u, b, "-", "remove", WavSuffix)
    /\ UNCHANGED <<fs_frame, disk, foreign_access>>

\* delete_recording: os.remove of the file it has just found (lines 1172,
\* 1179, 1186); on a file that is gone it raises and the answer is 500.
FsDeleteRemove ==
    /\ UNCHANGED requests
    /\ \E r \in inflight :
         /\ r.op = "delete"
         /\ r.at = "remove"
         /\ IF Exists(r.base, r.suffix)
            THEN /\ disk' = disk \ At(disk, r.base, r.suffix)
                 /\ foreign_access' =
                        foreign_access \cup Touch(r.user, At(disk, r.base, r.suffix), "delete")
                 /\ IF AfterDeleted(r.suffix) = "none"
                    THEN Answer(r, "ok")
                    ELSE Goto(r, "test", AfterDeleted(r.suffix))
            ELSE /\ Answer(r, "error")
                 /\ UNCHANGED <<disk, foreign_access>>
    /\ UNCHANGED fs_frame

\* delete_recording: os.path.exists of the transcript (line 1178) and of
\* the summary (line 1185).
FsDeleteTest ==
    /\ UNCHANGED requests
    /\ \E r \in inflight :
         /\ r.op = "delete"
         /\ r.at = "test"
         /\ IF Exists(r.base, r.suffix)
            THEN Goto(r, "remove", r.suffix)
            ELSE IF AfterDeleted(r.suffix) = "none"
            THEN Answer(r, "ok")
            ELSE Goto(r, "test", AfterDeleted(r.suffix))
    /\ UNCHANGED <<fs_frame, disk, foreign_access>>

\* rename_recording: the ownership test, the test of the sanitized name
\* ("" when sanitize_filename leaves nothing, 400) and os.path.exists of the
\* recording (lines 712-727).
FsRenameBegin ==
    /\ Receive
    /\ Cardinality(inflight) < MaxInflight
    /\ \E u \in UserIds, b \in Bases, n \in Labels \cup {""} :
         Admit("rename", u, b, n, "rename", WavSuffix)
    /\ UNCHANGED <<fs_frame, disk, foreign_access>>

\* rename_recording: os.rename of the file it has just found (lines 728,
\* 737) to the name built from the session user's id, the new name and the
\* last '_'-separated field of the old file name; a file already under that
\* name is replaced; on a file that is gone os.rename raises, answer 500.
FsRenameMove ==
    /\ UNCHANGED requests
    /\ \E r \in inflight :
         /\ r.op = "rename"
         /\ r.at = "rename"
         /\ IF Exists(r.base, r.suffix)
            THEN LET moved == At(disk, r.base, r.suffix)
                     new_base == RenamedBase(r.user, r.name, r.base)
                     replaced == At(disk, new_base, r.suffix) \ moved
                 IN /\ disk' = (disk \ (moved \cup replaced))
                                  \cup { File(new_base, r.suffix, m.owner) : m \in moved }
                    /\ foreign_access' =
                           foreign_access \cup Touch(r.user, moved \cup replaced, "change")
                    /\ IF r.suffix = WavSuffix
                       THEN Goto(r, "test", TranscriptSuffix)
                       ELSE Answer(r, "ok")
            ELSE /\ Answer(r, "error")
                 /\ UNCHANGED <<disk, foreign_access>>
    /\ UNCHANGED fs_frame

\* rename_recording: os.path.exists of the old transcript (line 736).
FsRenameTest ==
    /\ UNCHANGED requests
    /\ \E r \in inflight :
         /\ r.op = "rename"
         /\ r.at = "test"
         /\ IF Exists(r.base, r.suffix)
            THEN Goto(r, "rename", r.suffix)
            ELSE Answer(r, "ok")
    /\ UNCHANGED <<fs_frame, disk, foreign_access>>

\* The routes that only read a named file: download (recording),
\* download_transcription and view_transcription (transcript), view_summary
\* and the two exports (summary): the ownership test and os.path.exists.
FsReadBegin ==
    /\ Receive
    /\ Cardinality(inflight) < MaxInflight
    /\ \E u \in UserIds, b \in Bases, suffix \in {WavSuffix, TranscriptSuffix, SummarySuffix} :
         Admit("read", u, b, "-", "open", suffix)
    /\ UNCHANGED <<fs_frame, disk, foreign_access>>

\* The same routes: the file is opened (send_file, open); if it is gone the
\* open raises and the answer is 500.
FsReadOpen ==
    /\ UNCHANGED requests
    /\ \E r \in inflight :
         /\ r.op = "read"
         /\ r.at = "open"
         /\ IF Exists(r.base, r.suffix)
            THEN /\ foreign_access' =
                        foreign_access \cup Touch(r.user, At(disk, r.base, r.suffix), "read")
                 /\ Answer(r, "ok")
            ELSE /\ Answer(r, "error")
                 /\ UNCHANGED foreign_access
    /\ UNCHANGED <<fs_frame, disk>>

\* save_summary_copy: the ownership test and os.path.exists of the posted
\* name (lines 1269-1275).
FsCopyBegin ==
    /\ Receive
    /\ Cardinality(inflight) < MaxInflight
    /\ \E u \in UserIds, b \in Bases, suffix \in {TranscriptSuffix, SummarySuffix, CombinedSuffix} :
         Admit("copy", u, b, "-", "open", suffix)
    /\ UNCHANGED <<fs_frame, disk, foreign_access>>

\* save_summary_copy after its head: the posted file is opened and read
\* (line 1278), the transcript whose name is derived from it is looked for
\* (line 1286, 404 if missing), opened and read (line 1290), and the combined
\* copy is written (line 1316).  An open of a file that is gone raises and
\* the answer is 500.
FsCopy ==
    /\ UNCHANGED requests
    /\ \E r \in inflight :
         /\ r.op = "copy"
         /\ LET \* base_name: str.replace('_resumo.txt', '') of the posted name
                copy_base == r.base \o << CASE r.suffix = SummarySuffix -> "_transcricao"
                                            [] OTHER -> r.suffix >>
                Read(base, suffix, at) ==
                    IF Exists(base, suffix)
                    THEN /\ inflight' = (inflight \ {r}) \cup
                                { [r EXCEPT !.at = at,
                                            !.source = (CHOOSE f \in At(disk, base, suffix) :
                                                           TRUE).owner] }
                         /\ foreign_access' =
                                foreign_access \cup Touch(r.user, At(disk, base, suffix), "read")
                         /\ UNCHANGED <<disk, fs_answer>>
                    ELSE /\ Answer(r, "error")
                         /\ UNCHANGED <<disk, foreign_access>>
            IN  CASE r.at = "open" -> Read(r.base, r.suffix, "test")
                  [] r.at = "test" ->
                       /\ IF Exists(copy_base, TranscriptSuffix)
                          THEN Goto(r, "open_transcript", r.suffix)
                          ELSE Answer(r, "notfound")
                       /\ UNCHANGED <<disk, foreign_access>>
                  [] r.at = "open_transcript" -> Read(copy_base, TranscriptSuffix, "write")
                  [] r.at = "write" ->
                       /\ disk' = Put(disk, copy_base, "_conversa_completa.txt", r.source)
                       /\ foreign_access' =
                              foreign_access
                                  \cup Touch(r.user,
                                             At(disk, copy_base, "_conversa_completa.txt")
                                                 \cup { File(copy_base, "_conversa_completa.txt",
                                                             r.source) },
                                             "change")
                       /\ Answer(r, "ok")
                  [] OTHER -> FALSE
    /\ UNCHANGED fs_frame

\* get_all_transcriptions: os.listdir (line 768) and the choice of the names
\* that start with the user's id and end in '_transcricao.txt'; with none
\* the answer follows, else the first of them is gone to.
FsListBegin ==
    /\ Receive
    /\ Cardinality(inflight) < MaxInflight
    /\ \E u \in UserIds :
         LET listed == { f.base : f \in { g \in disk : /\ g.suffix = TranscriptSuffix
                                                       /\ AccessGranted(g.base, u) } }
         IN  IF listed = {}
             THEN /\ fs_answer' = "ok"
                  /\ UNCHANGED inflight
             ELSE /\ \E b \in listed :
                       inflight' = inflight \cup
                           { [id |-> FreeSlot, op |-> "list", user |-> u, base |-> b,
                              name |-> "-", at |-> "getsize", suffix |-> TranscriptSuffix,
                              source |-> u, todo |-> listed \ {b}] }
                  /\ UNCHANGED fs_answer
    /\ UNCHANGED <<fs_frame, disk, foreign_access>>

\* get_all_transcriptions on one listed file: os.path.getsize (line 773) and
\* os.path.getmtime (line 774) raise on a file that is gone (500); the open
\* and read (lines 779-781) are in a try whose handler goes on; then
\* os.path.exists of the summary name (line 794) and of the recording
\* (line 802) and os.path.getsize of the recording (line 803, 500 if it is
\* gone).  After the last file the request answers.
FsList ==
    /\ UNCHANGED requests
    /\ \E r \in inflight :
         /\ r.op = "list"
         /\ LET Step(at) == Goto(r, at, r.suffix)
                Failed == Answer(r, "error")
                Advance ==
                    IF r.todo = {} THEN Answer(r, "ok")
                    ELSE /\ \E b \in r.todo :
                              inflight' = (inflight \ {r}) \cup
                                  { [r EXCEPT !.base = b, !.at = "getsize", !.todo = r.todo \ {b}] }
                         /\ UNCHANGED fs_answer
            IN  /\ CASE r.at = "getsize" ->
                          IF Exists(r.base, TranscriptSuffix) THEN Step("getmtime") ELSE Failed
                     [] r.at = "getmtime" ->
                          IF Exists(r.base, TranscriptSuffix) THEN Step("open") ELSE Failed
                     [] r.at = "open" -> Step("has_summary")
                     [] r.at = "has_summary" -> Step("has_wav")
                     [] r.at = "has_wav" ->
                          IF Exists(r.base, WavSuffix) THEN Step("wav_size") ELSE Advance
                     [] r.at = "wav_size" ->
                          IF Exists(r.base, WavSuffix) THEN Advance ELSE Failed
                     [] OTHER -> FALSE
                /\ foreign_access' =
                       IF r.at = "open"
                       THEN foreign_access
                                \cup Touch(r.user, At(disk, r.base, TranscriptSuffix), "read")
                       ELSE foreign_access
    /\ UNCHANGED <<fs_frame, disk>>

NextFiles ==
    \/ FsSave
    \/ FsTranscribeBegin
    \/ FsTranscribeRun
    \/ FsTranscribeEnd
    \/ FsSummaryBegin
    \/ FsSummaryRead
    \/ FsSummaryGenerate
    \/ FsSummaryWrite
    \/ FsSummaryCopy
    \/ FsDeleteBegin
    \/ FsDeleteRemove
    \/ FsDeleteTest
    \/ FsRenameBegin
    \/ FsRenameMove
    \/ FsRenameTest
    \/ FsReadBegin
    \/ FsReadOpen
    \/ FsCopyBegin
    \/ FsCopy
    \/ FsListBegin
    \/ FsList

SpecFiles == InitFiles /\ [][NextFiles]_vars

(* ------------------------------- claims ------------------------------- *)

SegmentedPcs == {"split", "seg_export", "seg_read", "seg_recog", "seg_override", "seg_call",
                 "seg_test", "seg_unlink", "seg_restore", "stitch"}

\* The run returned from the join of the segmented path.
Stitched == pc = "done" /\ segments # <<>> /\ idx = Len(segments)

\* The run returned from the retry loop of the whole-recording path.
Recognized == pc = "done" /\ attempt_log # <<>>

LastAttempt == attempt_log[Len(attempt_log)]

\* Every value the whole-recording path returns as its single fragment.
SingleFragments ==
    {WholeFragment(o) : o \in Outcomes}
    \cup {NotFoundMarker, TooSmallMarker}
    \cup {ReadErrorMarker(d) : d \in Details}

\* C1: a recording of at most 60,000 ms (60,000 included) is never split: the
\* run never is at a position of the segmented path, no segment and no
\* segment fragment exists, and what it returns is one single fragment.
C1_ShortRecordingNotSplit ==
    duration <= 60000 =>
        /\ pc \notin SegmentedPcs
        /\ segments = <<>>
        /\ transcriptions = <<>>
        /\ seg_log = <<>>
        /\ pc = "done" => result \in SingleFragments

C1_Witness ==
    /\ pc = "done"
    /\ duration = 60000
    /\ levels_tried = <<1>>
    /\ Len(attempt_log) = 1
    /\ result = <<"a">>

CeilDiv(a, b) == (a + b - 1) \div b

Min(a, b) == IF a < b THEN a ELSE b

\* C2: once the split loop has run on a recording of D > 60,000 ms there are
\* ceil(D / 45000) segments, segment k (0-based) is [45000*k, min(45000*(k+1), D)):
\* consecutive, non-empty, at most 45,000 ms, only the last shorter, from 0 to D.
C2_SegmentsPartitionDuration ==
    (pc \in SegmentedPcs \ {"split"} \/ (pc = "done" /\ segments # <<>>)) =>
        /\ duration > 60000
        /\ Len(segments) = CeilDiv(duration, 45000)
        /\ \A k \in 1..Len(segments) :
             /\ segments[k].start = 45000 * (k - 1)
             /\ segments[k].end = Min(45000 * k, duration)
             /\ segments[k].start < segments[k].end
             /\ segments[k].end - segments[k].start <= 45000
             /\ k < Len(segments) => segments[k].end - segments[k].start = 45000
             /\ k < Len(segments) => segments[k + 1].start = segments[k].end
        /\ segments[1].start = 0
        /\ segments[Len(segments)].end = duration

C2_Witness ==
    /\ pc = "stitch"
    /\ duration = 90001
    /\ segments = << [start |-> 0, end |-> 45000], [start |-> 45000, end |-> 90000],
                     [start |-> 90000, end |-> 90001] >>

\* Header line of the 1-based n-th block of a stitched transcript.
BlockHeader(n) == <<"[", "Segmento ", DigitStr(n), "]">>

\* Position in the stitched transcript where the n-th block starts.
RECURSIVE BlockStart(_)
BlockStart(n) ==
    IF n = 1 THEN 1
    ELSE BlockStart(n - 1) + Len(BlockHeader(n - 1)) + 1 + Len(transcriptions[n - 1]) + 2

BlockEnd(n) == BlockStart(n) + Len(BlockHeader(n)) + Len(transcriptions[n])

\* C3: segments are handled one after the other in ascending index order, and
\* the stitched transcript holds, for n = 1, 2, ..., the header of segment n,
\* a line break and the fragment of segment n, blocks separated by a blank
\* line, so block i lies wholly before block j whenever i < j.
C3_StitchKeepsSegmentOrder ==
    /\ \A k \in 1..Len(seg_log) : seg_log[k].idx = k - 1
    /\ Len(seg_log) = Len(transcriptions)
    /\ Stitched =>
         /\ Len(transcriptions) = Len(segments)
         /\ \A n \in 1..Len(transcriptions) :
              /\ BlockEnd(n) <= Len(result)
              /\ SubSeq(result, BlockStart(n), BlockEnd(n)) =
                    BlockHeader(n) \o <<"\n">> \o transcriptions[n]
              /\ n < Len(transcriptions) =>
                    /\ SubSeq(result, BlockEnd(n) + 1, BlockEnd(n) + 2) = <<"\n", "\n">>
                    /\ BlockEnd(n) + 3 = BlockStart(n + 1)
         /\ Len(result) = BlockEnd(Len(transcriptions))

C3_Witness ==
    /\ Stitched
    /\ Len(segments) = 3
    /\ transcriptions = << <<"a">>, SegmentErrorMarker(1), <<"b", " ">> >>
    /\ result = <<"[", "Segmento ", "1", "]", "\n", "a", "\n", "\n",
                  "[", "Segmento ", "2", "]", "\n", "[", "Erro no segmento ", "2", "]",
                  "\n", "\n",
                  "[", "Segmento ", "3", "]", "\n", "b", " ">>

\* C4 (as stated): a segment the service did not understand shows a marker
\* that is no recognized text and differs from what the same position shows
\* after a timeout, a request error or an empty response, and every other
\* segment's fragment is in the transcript.
C4_UnrecognizedMarkerIsDistinct ==
    Stitched =>
        \A k \in 1..Len(seg_log) :
            seg_log[k].kind = "unknown" =>
                /\ transcriptions[k] \notin Texts
                /\ \A o \in Outcomes :
                     o.kind \in {"timeout", "request"} \/ (o.kind = "text" /\ strip(o.text) = <<>>)
                        => transcriptions[k] # SegFragment(o, k - 1)
                /\ \A n \in 1..Len(transcriptions) :
                     SubSeq(result, BlockStart(n), BlockEnd(n)) =
                        BlockHeader(n) \o <<"\n">> \o transcriptions[n]

\* C5 (as stated): a run that split the recording into N segments ends with
\* the stitched transcript of exactly N fragments, whatever failed on the way.
C5_RunAlwaysEndsStitched ==
    (pc = "done" /\ segments # <<>>) =>
        /\ Len(transcriptions) = Len(segments)
        /\ result = StitchTranscript(transcriptions)

AllTimeouts(log) == \A i \in 1..Len(log) : log[i].kind = "timeout"

\* C6: the whole-recording path makes at most 3 recognition calls; every
\* backoff is followed by another call (one backoff fewer than calls when the
\* loop has returned); all calls before the last timed out, so the first call
\* that does not time out decides the fragment; the result is the Timeout
\* marker exactly when 3 calls were made and all timed out.
C6_TimeoutRetriedUpToThreeTimes ==
    /\ Len(attempt_log) <= 3
    /\ sleeps <= Len(attempt_log)
    /\ (sleeps = Len(attempt_log) /\ attempt_log # <<>>) => pc \in {"recog", "override", "call"}
    /\ \A i \in 1..(Len(attempt_log) - 1) : attempt_log[i].kind = "timeout"
    /\ pc = "backoff" => LastAttempt.kind = "timeout" /\ Len(attempt_log) < 3
    /\ Recognized =>
         /\ sleeps = Len(attempt_log) - 1
         /\ result = TimeoutMarker <=> (Len(attempt_log) = 3 /\ AllTimeouts(attempt_log))
         /\ LastAttempt.kind = "text" /\ strip(LastAttempt.text) # <<>>
               => result = LastAttempt.text
         /\ LastAttempt.kind = "timeout" => Len(attempt_log) = 3

C6_Witness ==
    /\ Recognized
    /\ Len(attempt_log) = 3
    /\ AllTimeouts(attempt_log)
    /\ sleeps = 2
    /\ result = TimeoutMarker

\* C7 (as stated): a segment whose fragment follows a timed-out recognition
\* call got the full 3 calls before.
C7_SegmentTimeoutIsRetried ==
    \A k \in 1..Len(seg_log) : seg_log[k].kind = "timeout" => seg_log[k].calls = 3

\* C8: a 'not understood' or request-error response, on whichever attempt it
\* comes, is the last call of the run: the loop has returned at once with the
\* Unrecognized marker or the ServiceError marker carrying the service's
\* detail, with no backoff after it.
C8_NonTimeoutEndsRetryLoop ==
    \A i \in 1..Len(attempt_log) :
        attempt_log[i].kind \in {"unknown", "request"} =>
            /\ i = Len(attempt_log)
            /\ pc = "done"
            /\ sleeps = i - 1
            /\ attempt_log[i].kind = "unknown" =>
                 result = <<"[", "Áudio não pôde ser compreendido - verifique a qualidade do áudio e tente falar mais claramente", "]">>
            /\ attempt_log[i].kind = "request" =>
                 result = <<"[", "Erro no serviço de reconhecimento: ", attempt_log[i].detail, "]">>

C8_Witness ==
    /\ pc = "done"
    /\ Len(attempt_log) = 2
    /\ attempt_log[1].kind = "timeout"
    /\ attempt_log[2].kind = "request"
    /\ attempt_log[2].detail = "e2"
    /\ sleeps = 1
    /\ result = ServiceErrorMarker("e2")

IsPrefix(s, t) == Len(s) <= Len(t) /\ s = SubSeq(t, 1, Len(s))

\* C9: the read levels are entered in the order 1 (convert, calibrated),
\* 2 (raw read, calibrated), 3 (raw read, no calibration), each only after
\* every earlier one failed; the audio recognized is that of the first level
\* that succeeded; when all three failed the run has returned the read-error
\* marker with the third level's diagnostic and made no recognition call.
C9_ReadFallbackOrder ==
    /\ IsPrefix(levels_tried, <<1, 2, 3>>)
    /\ Len(level_errors) <= Len(levels_tried)
    /\ audio_level # 0 =>
         /\ levels_tried # <<>>
         /\ audio_level = levels_tried[Len(levels_tried)]
         /\ Len(level_errors) = audio_level - 1
    /\ (pc \in {"unlink1", "recog", "override", "call", "return_text", "backoff"} \/ attempt_log # <<>>) => audio_level # 0
    /\ pc \in {"read2", "read3"} => Len(level_errors) = Len(levels_tried)
    /\ Len(level_errors) = 3 =>
         /\ pc = "done"
         /\ audio_level = 0
         /\ attempt_log = <<>>
         /\ result = <<"[", "Erro: Não foi possível processar o arquivo de áudio. O formato pode não ser suportado. Detalhes: ", level_errors[3], "]">>

C9_Witness ==
    /\ pc = "done"
    /\ levels_tried = <<1, 2, 3>>
    /\ level_errors = <<"e1", "e1", "e2">>
    /\ attempt_log = <<>>
    /\ result = ReadErrorMarker("e2")

\* C10: when the run has returned, on whichever path, the process-wide socket
\* default timeout is what it was when the run started.
C10_TimeoutRestoredOnReturn ==
    pc = "done" => socket_timeout = initial_timeout

C10_Witness ==
    /\ pc = "done"
    /\ initial_timeout = 10
    /\ Len(attempt_log) = 3
    /\ AllTimeouts(attempt_log)
    /\ socket_timeout = 10

\* C11 (as stated): two interleaved runs leave the process-wide socket
\* default timeout as it was before either started, and while a run's
\* recognition call is in progress the timeout in force is the one it set.
C11_RunsDoNotShareTimeout ==
    /\ (pc = "done" /\ peer_pc = "done") => socket_timeout = initial_timeout
    /\ pc = "call" => socket_timeout = whole_socket_timeout
    /\ pc = "seg_call" => socket_timeout = segment_socket_timeout
    /\ peer_pc = "call" =>
           socket_timeout = IF peer_long THEN segment_socket_timeout ELSE whole_socket_timeout

\* C12 (as stated): when the run has returned, every temporary file it
\* created is deleted.
C12_NoTempFileLeftOnReturn ==
    pc = "done" => temp_files = {}

\* C13 (as stated): runs on two different recordings never touch each
\* other's files: a temporary file a run exported is still there when that
\* run comes to read it and to remove it.
C13_RunsDoNotShareFiles ==
    /\ pc \in {"read1", "unlink1"} => TempAudio \in temp_files
    /\ pc \in {"seg_read", "seg_unlink"} => SegmentFile(idx) \in temp_files
    /\ peer_pc \in {"read", "unlink"} => peer_path \in temp_files

ImproveOps == {"improve", "transcribe"}

ImproveReturned == rt_pc \in {"returned", "save", "responded"}

CallFailed == gen_log # <<>> /\ gen_log[1].kind = "error"

\* C14: improve applied to a text that starts with '[' returns it unchanged
\* and makes no generative call; the transcribe route saves such a text as
\* the transcript as it is.
C14_MarkerNeverImproved ==
    (rt_op \in ImproveOps /\ StartsWithBracket(raw_transcription)) =>
        /\ generative_calls = 0
        /\ rt_pc # "generate"
        /\ ImproveReturned => transcription = raw_transcription
        /\ (rt_op = "transcribe" /\ rt_pc = "responded") =>
               transcript_file = raw_transcription

C14_Witness ==
    /\ rt_op = "improve"
    /\ rt_pc = "returned"
    /\ model_available
    /\ StartsWithBracket(raw_transcription)
    /\ transcription = raw_transcription

\* C15: improve never raises to its caller: without the model it returns
\* its input without a call, it calls the service at most once, and when
\* that call fails it returns its input; the transcribe route then saves
\* a transcript and reports success.
C15_ImproveAbsorbsFailure ==
    rt_op \in ImproveOps =>
        /\ ~improve_raised
        /\ generative_calls <= 1
        /\ ~model_available => (generative_calls = 0 /\ rt_pc # "generate")
        /\ (ImproveReturned /\ (~model_available \/ CallFailed)) =>
               transcription = raw_transcription
        /\ (rt_op = "transcribe" /\ rt_pc = "responded") =>
               /\ response.success
               /\ transcript_file = transcription

C15_Witness ==
    /\ rt_op = "transcribe"
    /\ rt_pc = "responded"
    /\ CallFailed
    /\ response.success
    /\ transcript_file = raw_transcription

\* C16 (as stated): a summary request makes no generative call when the
\* transcript is a failure marker or the generative service is unavailable.
C16_SummarizePassesThrough ==
    (/\ rt_op = "summary"
     /\ transcript_file # NoFile
     /\ (StartsWithBracket(transcript_file) \/ ~model_available)) =>
        /\ generative_calls = 0
        /\ rt_pc # "summarize"

\* C17: a summary request makes at most one generative call; when the call
\* fails the caller gets an error carrying the service's message, and
\* neither the summary file nor the combined copy is created or overwritten.
C17_SummarizeSingleShot ==
    rt_op = "summary" =>
        /\ generative_calls <= 1
        /\ Len(gen_log) = generative_calls
        /\ (rt_pc = "responded" /\ CallFailed) =>
               /\ ~response.success
               /\ response.status = 500
               /\ response.message = <<"Erro ao gerar resumo com IA: ", gen_log[1].detail>>
               /\ summary_file = prior_summary
               /\ combined_file = prior_combined

C17_Witness ==
    /\ rt_op = "summary"
    /\ rt_pc = "responded"
    /\ CallFailed
    /\ prior_summary = OldSummary
    /\ summary_file = OldSummary

PromptBuilt == rt_op = "summary" /\ rt_pc \in {"summarize", "responded"} /\ prompt # <<>>

\* C18 (as stated): with an instruction that is non-empty after trimming the
\* prompt embeds the instruction exactly as the caller posted it and not the
\* default layout; otherwise it is the default layout; the transcript is in
\* the prompt either way.
C18_InstructionEmbeddedAsPosted ==
    PromptBuilt =>
        /\ Contains(prompt, transcript_file)
        /\ IF strip(custom_in) # <<>>
           THEN Contains(prompt, custom_in) /\ ~Contains(prompt, DefaultLayout)
           ELSE Contains(prompt, DefaultLayout)

\* What the route does instead: the instruction is embedded with its leading
\* and trailing whitespace removed (line 840); the choice between the two
\* prompts and the transcript in the prompt are as the claim says.
InstructionEmbeddedTrimmed ==
    PromptBuilt =>
        /\ Contains(prompt, transcript_file)
        /\ IF \E i \in DOMAIN custom_in : ~IsSpace(custom_in[i])
           THEN /\ Contains(prompt, <<"INSTRUÇÕES DO USUÁRIO:\n">> \o strip(custom_in)
                                        \o <<"\n\nTranscrição:\n">>)
                /\ ~Contains(prompt, DefaultLayout)
           ELSE Contains(prompt, DefaultLayout)

\* The run's half of C19: a file under the threshold ends the run at once.
TooSmallRunRejected ==
    (pc \notin {"none", "start"} /\ file_exists /\ file_size < min_file_size) =>
        /\ pc = "done"
        /\ result = TooSmallMarker
        /\ levels_tried = <<>>
        /\ attempt_log = <<>>
        /\ seg_log = <<>>

\* C19 (as stated): audio posted under the minimum size is rejected by the
\* normalization: no recording is stored from it and the caller gets an error.
C19_TooSmallInputNotStored ==
    (rt_op = "save" /\ audio_size < min_file_size) =>
        /\ recordings = {}
        /\ rt_pc = "responded" => ~response.success

Blank(text) == \A i \in DOMAIN text : IsSpace(text[i])

\* C20: a recognized text that is empty or all whitespace gives the empty
\* marker of its path (whole recording: "[Áudio vazio ou muito baixo]",
\* segment: "[Segmento silencioso]"), never a blank fragment; any other
\* text is the fragment, unchanged.
C20_BlankTextBecomesEmpty ==
    /\ (Recognized /\ LastAttempt.kind = "text") =>
           result = IF Blank(LastAttempt.text) THEN EmptyMarker ELSE LastAttempt.text
    /\ \A k \in 1..Len(seg_log) :
           seg_log[k].kind = "text" =>
               transcriptions[k] = IF Blank(seg_log[k].text) THEN SilentSegmentMarker
                                   ELSE seg_log[k].text

C20_Witness ==
    /\ pc = "done"
    /\ \E k \in 1..Len(seg_log) :
           seg_log[k].kind = "text" /\ seg_log[k].text = <<" ">>
               /\ transcriptions[k] = SilentSegmentMarker
    /\ \E k \in 1..Len(seg_log) :
           seg_log[k].kind = "text" /\ seg_log[k].text = <<"b", " ">>
               /\ transcriptions[k] = <<"b", " ">>

\* A returned value is a recognized text, a marker, or a stitched transcript.
TextOrMarker(v) == v # <<>> /\ (StartsWithBracket(v) \/ (v \in Texts /\ ~Blank(v)))

RECURSIVE SegCalls(_)
SegCalls(log) == IF log = <<>> THEN 0 ELSE Head(log).calls + SegCalls(Tail(log))

RecognitionCalls == Len(attempt_log) + SegCalls(seg_log)

\* The part of C23 that does not count calls: the run ends, with a text or
\* a bracketed marker.
RunTerminates == [](pc = "done" => TextOrMarker(result)) /\ <>(pc = "done")

CallsBounded ==
    /\ pc = "done" => TextOrMarker(result)
    /\ ~IsLong(duration) => RecognitionCalls <= 3
    /\ IsLong(duration) =>
           /\ RecognitionCalls <= CeilDiv(duration, segment_length)
           /\ \A k \in 1..Len(seg_log) : seg_log[k].calls <= 1

\* C23 (as stated): every run ends by returning a text or a bracketed marker
\* (it never raises and never goes on for ever), after at most 3 recognition
\* calls for a recording of at most 60,000 ms and at most one call per
\* segment for a longer one.
C23_RunTerminatesWithinCalls == []CallsBounded /\ <>(pc = "done")

\* A failure marker is a bracketed text; a stitched transcript, which opens
\* with the header of its first block, is not one.
IsFailureMarker(text) == StartsWithBracket(text) /\ ~IsPrefix(BlockHeader(1), text)

\* C24 (as stated): with the generative service available the transcribe
\* route sends every transcript that is not a failure marker to improve,
\* the stitched transcript of a long recording included, and saves the
\* corrected text the service answered.
C24_NonMarkerTranscriptImproved ==
    (/\ rt_op = "transcribe"
     /\ model_available
     /\ ~IsFailureMarker(raw_transcription)
     /\ rt_pc \in {"save", "responded"}) =>
        /\ generative_calls = 1
        /\ (rt_pc = "responded" /\ gen_log[1].kind = "ok") =>
               transcript_file = strip(gen_log[1].text)

\* The classification the markup grammar gives a line, surrounding
\* whitespace aside: the first rule that matches.
LineClass(raw_line) ==
    LET line == strip(raw_line) IN
    IF Blank(line) THEN "spacer"
    ELSE IF IsPrefix(<<"#", "#", " ">>, line) THEN "heading"
    ELSE IF IsPrefix(<<"#", "#", "#", " ">>, line) THEN "subheading"
    ELSE IF Len(line) >= 4 /\ IsPrefix(<<"*", "*">>, line)
            /\ line[Len(line) - 1] = "*" /\ line[Len(line)] = "*" THEN "emphasized"
    ELSE "normal"

\* One block per line, in line order, typed by LineClass.
ScansLinearly(blocks) ==
    /\ Len(blocks) = Len(markup)
    /\ \A i \in 1..Len(blocks) : blocks[i].type = LineClass(markup[i])

\* The paginated-document half of C21.
PdfScansLinearly == rd_pc # "pdf" => ScansLinearly(story)

\* C21 (as stated): in both renderers every line of the text gives exactly
\* one block, in line order, typed by the first matching rule: blank ->
\* spacer, '## ' -> heading, '### ' -> subheading, wrapped in '**' ->
\* emphasized, anything else -> normal.
C21_EveryLineOneBlock ==
    rd_pc = "done" => (ScansLinearly(story) /\ ScansLinearly(docx_body))

BlockTypes(blocks) == [i \in 1..Len(blocks) |-> blocks[i].type]

\* C22 (as stated): for every text the two renderers give the same sequence
\* of typed blocks after the title and the date.
C22_RenderersAgreeOnBlocks ==
    rd_pc = "done" => BlockTypes(story) = BlockTypes(docx_body)

\* The recording a derived file was made from is on disk under its name.
HasSource(f) == \E g \in disk : g.base = f.base /\ g.suffix = WavSuffix

\* C25 (as stated): whenever no request is in flight, every transcript and
\* every summary on disk has its recording on disk under the matching name.
C25_NoOrphanedArtifact ==
    inflight = {} => \A f \in disk : f.suffix # WavSuffix => HasSource(f)

\* C26 (as stated): no request of a user reads, changes or deletes a file
\* made from another user's recording, whatever the two user ids are.
C26_NoAccessAcrossUsers == foreign_access = {}

====
